---- MODULE Spec2Model ----
(***************************************************************************)
(* Twofold Chess: the rules engine (chessLogic.ts), the twofold            *)
(* coordinator (spec section 4.3) and the client's input gating            *)
(* (Gameboard.tsx), as one state machine (Spec); the lobby server          *)
(* (backend/server.ts, lobbyManager.ts) as LobbySpec; one room under       *)
(* concurrent move events as RoomSpec.                                     *)
(***************************************************************************)
EXTENDS Integers, Sequences, FiniteSets, TLC

VARIABLES
    mainBoard,                        \* 8x8, rows 0..7, row 0 = Black's back rank
    secondaryBoard,
    turn,                             \* "White" | "Black"
    active_board_phase,               \* "main" | "secondary"
    is_responding_to_check_on_board,  \* "main" | "secondary" | null
    main_board_outcome,               \* "active" | "white_wins" | "black_wins" | "draw_stalemate"
    secondary_board_outcome,
    game_over,
    winner,                           \* "White" | "Black" | "Draw" | null
    castling_rights,                  \* [board][color][K|Q]
    en_passant_target,                \* [board] -> <<row, col>> | null
    moves,                            \* accepted move records, in order
    reset_votes,                      \* [color] -> the colour has voted for a reset
    scenario,                         \* the preset installed in the room, null when none
    lobbies,                          \* lobbyManager.lobbies: room id -> Lobby
    sockets,                          \* [socket] -> connection status and socket.data
    rooms,                            \* [room id] -> the sockets joined to the socket.io room
    now,                              \* server clock, minutes
    lastActivity,                     \* [room id] -> time of the last create or join of the lobby
    requests,                         \* move events sent by the players, not yet handled
    queue,                            \* [player] -> game_update events sent to the socket, in send order
    received,                         \* [player] -> game_update events delivered to the client, in order
    socket,                           \* Gameboard prop: the client holds a socket
    playerColor,                      \* Gameboard prop: "White" | "Black", null in a local game
    activeBoard,                      \* the board the client shows
    isManualBoardSwitch,              \* the player switched boards by hand
    boardSwapTimeoutRef,              \* the timer that swaps the visible board
    manualSwitchTimeoutRef,           \* the timer that ends a manual switch
    selectedPieceSquare,              \* a piece is selected
    castlingCandidate,                \* the selected king may castle
    pendingPromotion,                 \* the board of the promotion the modal asks about, or null
    emitted,                          \* the last move event the client emitted
    lastEvent                         \* "update_differs" after a snapshot whose phase was not the board shown

gameVars == <<mainBoard, secondaryBoard, turn, active_board_phase,
              is_responding_to_check_on_board, main_board_outcome,
              secondary_board_outcome, game_over, winner, castling_rights,
              en_passant_target, moves, reset_votes, scenario>>

lobbyVars == <<lobbies, sockets, rooms, now, lastActivity>>

roomVars == <<requests, queue, received>>

clientVars == <<socket, playerColor, activeBoard, isManualBoardSwitch,
                boardSwapTimeoutRef, manualSwitchTimeoutRef, selectedPieceSquare,
                castlingCandidate, pendingPromotion, emitted, lastEvent>>

vars == <<mainBoard, secondaryBoard, turn, active_board_phase,
          is_responding_to_check_on_board, main_board_outcome,
          secondary_board_outcome, game_over, winner, castling_rights,
          en_passant_target, moves, reset_votes, scenario,
          lobbies, sockets, rooms, now, lastActivity,
          requests, queue, received,
          socket, playerColor, activeBoard, isManualBoardSwitch,
          boardSwapTimeoutRef, manualSwitchTimeoutRef, selectedPieceSquare,
          castlingCandidate, pendingPromotion, emitted, lastEvent>>

(***************************************************************************)
(* Bounds of the model.                                                    *)
(***************************************************************************)
\* accepted moves explored after a preset is installed
MaxPly == 3
\* accepted moves explored from the standard start position
MaxOpeningPly == 1
\* accepted moves explored after the castling preset is installed
MaxCastlingPly == 2
\* plies of a game in which reset votes are explored
MaxVotedPly == 1
\* connections the lobby server accepts
MaxSockets == 3
\* runs of the lobby cleanup timer
MaxTicks == 7
\* move events of a room in flight at once
MaxInFlight == 2

(***************************************************************************)
(* Pieces: chessLogic.ts                                                   *)
(***************************************************************************)
null == "null"

Colors == {"White", "Black"}
Boards == {"main", "secondary"}
Rows == 0..7
Cols == 0..7
Squares == Rows \X Cols

PieceTypes == {"P", "R", "N", "B", "Q", "K"}

\* piece strings: the letter (upper case = White), then the pawn's number
\* for pawns and for pieces promoted from a pawn
PieceLetter == [White |-> [P |-> "P", R |-> "R", N |-> "N", B |-> "B", Q |-> "Q", K |-> "K"],
                Black |-> [P |-> "p", R |-> "r", N |-> "n", B |-> "b", Q |-> "q", K |-> "k"]]

PawnNumbers == <<"1", "2", "3", "4", "5", "6", "7", "8">>

PieceStrings ==
    {[type |-> t, color |-> c, id |-> PieceLetter[c][t]] : t \in PieceTypes \ {"P"}, c \in Colors}
    \cup {[type |-> t, color |-> c, id |-> PieceLetter[c][t] \o PawnNumbers[n]] :
              t \in PieceTypes \ {"K"}, c \in Colors, n \in 1..8}

PieceInfoTable == [p \in {i.id : i \in PieceStrings} |-> CHOOSE i \in PieceStrings : i.id = p]

\* the PieceInfo | null result of getPieceInfo: null is this record
nullInfo == [type |-> null, color |-> null, id |-> null]

getPieceInfo(piece) ==
    IF piece = null THEN nullInfo
    ELSE IF piece \notin DOMAIN PieceInfoTable THEN nullInfo
    ELSE PieceInfoTable[piece]

isOnBoard(row, col) == row >= 0 /\ row < 8 /\ col >= 0 /\ col < 8

Opponent(color) == IF color = "White" THEN "Black" ELSE "White"

\* a target square a piece of `color` may move to: empty, or an enemy piece
CanLandOn(board, color, row, col) ==
    LET targetPieceId == board[row][col] IN
    IF targetPieceId # null
    THEN LET targetPieceInfo == getPieceInfo(targetPieceId) IN
         targetPieceInfo # nullInfo /\ targetPieceInfo.color # color
    ELSE TRUE

getPawnMoves(board, pawnInfo, row, col) ==
    LET direction == IF pawnInfo.color = "White" THEN -1 ELSE 1
        oneStepRow == row + direction
        startingRow == IF pawnInfo.color = "White" THEN 6 ELSE 1
        twoStepsRow == row + 2 * direction
        oneStep == IF isOnBoard(oneStepRow, col) /\ board[oneStepRow][col] = null
                   THEN {<<oneStepRow, col>>} ELSE {}
        twoSteps == IF oneStep # {} /\ row = startingRow
                       /\ isOnBoard(twoStepsRow, col) /\ board[twoStepsRow][col] = null
                    THEN {<<twoStepsRow, col>>} ELSE {}
        captures == {<<row + direction, col + offset>> : offset \in
                       {o \in {-1, 1} :
                          /\ isOnBoard(row + direction, col + o)
                          /\ board[row + direction][col + o] # null
                          /\ LET targetPieceInfo == getPieceInfo(board[row + direction][col + o])
                             IN targetPieceInfo # nullInfo /\ targetPieceInfo.color # pawnInfo.color}}
    IN oneStep \cup twoSteps \cup captures

knightMoveOffsets == {<<1, 2>>, <<1, -2>>, <<-1, 2>>, <<-1, -2>>,
                      <<2, 1>>, <<2, -1>>, <<-2, 1>>, <<-2, -1>>}

getKnightMoves(board, knightInfo, row, col) ==
    {<<row + d[1], col + d[2]>> : d \in
        {o \in knightMoveOffsets :
            /\ isOnBoard(row + o[1], col + o[2])
            /\ CanLandOn(board, knightInfo.color, row + o[1], col + o[2])}}

\* a faulty ray, which the properties below must tell from RaySquares: it does
\* not stop at an occupied square
RECURSIVE RaySquaresFaulty(_, _, _, _, _, _)
RaySquaresFaulty(board, color, r, c, dr, dc) ==
    IF ~isOnBoard(r, c) THEN {}
    ELSE (IF CanLandOn(board, color, r, c) THEN {<<r, c>>} ELSE {})
         \cup RaySquaresFaulty(board, color, r + dr, c + dc, dr, dc)

\* the squares of one ray from (r, c) onward: every empty square up to the
\* first occupied one, that one included when it holds an enemy piece
RECURSIVE RaySquares(_, _, _, _, _, _)
RaySquares(board, color, r, c, dr, dc) ==
    IF ~isOnBoard(r, c) THEN {}
    ELSE IF board[r][c] = null
    THEN {<<r, c>>} \cup RaySquares(board, color, r + dr, c + dc, dr, dc)
    ELSE IF CanLandOn(board, color, r, c) THEN {<<r, c>>}
    ELSE {}

RayMoves(board, color, row, col, dr, dc) ==
    RaySquares(board, color, row + dr, col + dc, dr, dc)

rookDirections == {<<0, 1>>, <<0, -1>>, <<1, 0>>, <<-1, 0>>}
bishopDirections == {<<1, 1>>, <<1, -1>>, <<-1, 1>>, <<-1, -1>>}

getRookMoves(board, pieceInfo, row, col) ==
    UNION {RayMoves(board, pieceInfo.color, row, col, d[1], d[2]) : d \in rookDirections}

getBishopMoves(board, pieceInfo, row, col) ==
    UNION {RayMoves(board, pieceInfo.color, row, col, d[1], d[2]) : d \in bishopDirections}

getQueenMoves(board, pieceInfo, row, col) ==
    getRookMoves(board, pieceInfo, row, col) \cup getBishopMoves(board, pieceInfo, row, col)

kingMoveOffsets == rookDirections \cup bishopDirections

getKingMoves(board, pieceInfo, row, col) ==
    {<<row + d[1], col + d[2]>> : d \in
        {o \in kingMoveOffsets :
            /\ isOnBoard(row + o[1], col + o[2])
            /\ CanLandOn(board, pieceInfo.color, row + o[1], col + o[2])}}

\* a faulty attack set, which the properties below must tell from
\* AttackedFrom: pawns attack nothing
AttackedFromFaulty(board, pieceInfo, r, c) ==
    CASE pieceInfo.type = "P" -> {}
      [] pieceInfo.type = "N" -> getKnightMoves(board, pieceInfo, r, c)
      [] pieceInfo.type = "R" -> getRookMoves(board, pieceInfo, r, c)
      [] pieceInfo.type = "B" -> getBishopMoves(board, pieceInfo, r, c)
      [] pieceInfo.type = "Q" -> getQueenMoves(board, pieceInfo, r, c)
      [] pieceInfo.type = "K" -> getKingMoves(board, pieceInfo, r, c)

\* the squares the piece on (r, c) attacks: pawns attack their two forward
\* diagonals whatever stands there
AttackedFrom(board, pieceInfo, r, c) ==
    CASE pieceInfo.type = "P" ->
            LET pawnDirection == IF pieceInfo.color = "White" THEN -1 ELSE 1 IN
            {<<r + pawnDirection, c + offset>> : offset \in
                {o \in {-1, 1} : isOnBoard(r + pawnDirection, c + o)}}
      [] pieceInfo.type = "N" -> getKnightMoves(board, pieceInfo, r, c)
      [] pieceInfo.type = "R" -> getRookMoves(board, pieceInfo, r, c)
      [] pieceInfo.type = "B" -> getBishopMoves(board, pieceInfo, r, c)
      [] pieceInfo.type = "Q" -> getQueenMoves(board, pieceInfo, r, c)
      [] pieceInfo.type = "K" -> getKingMoves(board, pieceInfo, r, c)

isSquareAttacked(board, targetRow, targetCol, attackerColor) ==
    \E r \in Rows, c \in Cols :
        /\ board[r][c] # null
        /\ LET pieceInfo == getPieceInfo(board[r][c]) IN
           /\ pieceInfo # nullInfo
           /\ pieceInfo.color = attackerColor
           /\ <<targetRow, targetCol>> \in AttackedFrom(board, pieceInfo, r, c)

\* a faulty check test, which the properties below must tell from
\* isKingInCheck: it never reports check
isKingInCheckFaulty(board, kingColor) == FALSE

\* the squares holding a king of the colour
KingSquares(board, kingColor) ==
    {s \in Squares : board[s[1]][s[2]] = PieceLetter[kingColor]["K"]}

isKingInCheck(board, kingColor) ==
    LET kings == KingSquares(board, kingColor) IN
    IF kings = {} THEN FALSE
    ELSE LET king == CHOOSE k \in kings :
                        \A o \in kings : k[1] < o[1] \/ (k[1] = o[1] /\ k[2] <= o[2])
         IN isSquareAttacked(board, king[1], king[2], Opponent(kingColor))

pseudoLegalMoves(board, pieceInfo, fromRow, fromCol) ==
    CASE pieceInfo.type = "P" -> getPawnMoves(board, pieceInfo, fromRow, fromCol)
      [] pieceInfo.type = "N" -> getKnightMoves(board, pieceInfo, fromRow, fromCol)
      [] pieceInfo.type = "R" -> getRookMoves(board, pieceInfo, fromRow, fromCol)
      [] pieceInfo.type = "B" -> getBishopMoves(board, pieceInfo, fromRow, fromCol)
      [] pieceInfo.type = "Q" -> getQueenMoves(board, pieceInfo, fromRow, fromCol)
      [] pieceInfo.type = "K" -> getKingMoves(board, pieceInfo, fromRow, fromCol)

\* a faulty self-check filter, which the properties below must tell from
\* LeavesKingSafe: it lets every move through
LeavesKingSafeFaulty(board, pieceId, fromRow, fromCol, move, playerTurn) == TRUE

\* the hypothetical board of getValidMoves: the piece put on the target, the
\* origin cleared
tempBoard(board, pieceId, fromRow, fromCol, move) ==
    [board EXCEPT ![move[1]][move[2]] = pieceId, ![fromRow][fromCol] = null]

\* the self-check filter of getValidMoves
LeavesKingSafe(board, pieceId, fromRow, fromCol, move, playerTurn) ==
    ~isKingInCheck(tempBoard(board, pieceId, fromRow, fromCol, move), playerTurn)

getValidMoves(board, pieceId, fromRow, fromCol, playerTurn) ==
    LET pieceInfo == getPieceInfo(pieceId) IN
    IF pieceInfo = nullInfo \/ pieceInfo.color # playerTurn THEN {}
    ELSE {move \in pseudoLegalMoves(board, pieceInfo, fromRow, fromCol) :
             LeavesKingSafe(board, pieceId, fromRow, fromCol, move, playerTurn)}

\* some piece of the colour has a legal move
HasLegalMove(board, kingColor) ==
    \E r \in Rows, c \in Cols :
        /\ board[r][c] # null
        /\ LET pieceInfo == getPieceInfo(board[r][c]) IN
           /\ pieceInfo # nullInfo
           /\ pieceInfo.color = kingColor
           /\ getValidMoves(board, board[r][c], r, c, kingColor) # {}

isCheckmate(board, kingColor) ==
    IF ~isKingInCheck(board, kingColor) THEN FALSE
    ELSE ~HasLegalMove(board, kingColor)

\* a faulty isStalemate, which the properties below must tell from
\* isStalemate: it does not look at the check
isStalemateFaulty(board, kingColor) == ~HasLegalMove(board, kingColor)

isStalemate(board, kingColor) ==
    IF isKingInCheck(board, kingColor) THEN FALSE
    ELSE ~HasLegalMove(board, kingColor)

(***************************************************************************)
(* Rules engine of the coordinator: legal_moves, classify, apply_move       *)
(* (spec section 4.2).  The self-check filter is getValidMoves.            *)
(***************************************************************************)
noSquare == <<>>

homeRank(player) == IF player = "White" THEN 7 ELSE 0

pawnDirection(color) == IF color = "White" THEN -1 ELSE 1

\* a faulty EnPassantMoves, which the properties below must tell from
\* EnPassantMoves: no en-passant capture is ever open
EnPassantMovesFaulty(board, from, side, ep) == {}

\* the en-passant capture open to the pawn on `from`: the diagonal step to the
\* en_passant_target, the captured pawn standing beside the capturer
EnPassantMoves(board, from, side, ep) ==
    LET pieceInfo == getPieceInfo(board[from[1]][from[2]]) IN
    IF \/ ep = noSquare
       \/ pieceInfo = nullInfo
       \/ pieceInfo.type # "P"
       \/ pieceInfo.color # side
    THEN {}
    ELSE IF /\ ep[1] = from[1] + pawnDirection(side)
            /\ (ep[2] = from[2] + 1 \/ ep[2] = from[2] - 1)
            /\ board[ep[1]][ep[2]] = null
            /\ ~isKingInCheck([board EXCEPT ![ep[1]][ep[2]] = board[from[1]][from[2]],
                                           ![from[1]][from[2]] = null,
                                           ![from[1]][ep[2]] = null], side)
         THEN {ep}
         ELSE {}

\* the rook on the corner is present and of the side's colour
OwnRookOn(board, row, col, side) ==
    LET rookInfo == getPieceInfo(board[row][col]) IN
    rookInfo # nullInfo /\ rookInfo.type = "R" /\ rookInfo.color = side

\* castling targets of the king on `from` (the king's landing square)
CastlingMoves(board, from, side, rights) ==
    LET pieceInfo == getPieceInfo(board[from[1]][from[2]])
        home == homeRank(side)
        attacked(col) == isSquareAttacked(board, home, col, Opponent(side))
    IN
    IF \/ pieceInfo = nullInfo
       \/ pieceInfo.type # "K"
       \/ pieceInfo.color # side
       \/ from # <<home, 4>>
       \/ isKingInCheck(board, side)
    THEN {}
    ELSE (IF /\ rights[side].K
             /\ OwnRookOn(board, home, 7, side)
             /\ board[home][5] = null /\ board[home][6] = null
             /\ ~attacked(5) /\ ~attacked(6)
          THEN {<<home, 6>>} ELSE {})
         \cup
         (IF /\ rights[side].Q
             /\ OwnRookOn(board, home, 0, side)
             /\ board[home][1] = null /\ board[home][2] = null /\ board[home][3] = null
             /\ ~attacked(3) /\ ~attacked(2)
          THEN {<<home, 2>>} ELSE {})

legal_moves(board, from, side, rights, ep) ==
    getValidMoves(board, board[from[1]][from[2]], from[1], from[2], side)
    \cup EnPassantMoves(board, from, side, ep)
    \cup CastlingMoves(board, from, side, rights)

is_in_check(board, side) == isKingInCheck(board, side)

has_any_legal_move(board, side, rights, ep) ==
    \E from \in Squares :
        /\ board[from[1]][from[2]] # null
        /\ legal_moves(board, from, side, rights, ep) # {}

classify(board, side, rights, ep) ==
    IF has_any_legal_move(board, side, rights, ep) THEN "Active"
    ELSE IF is_in_check(board, side) THEN "Checkmate"
    ELSE "Stalemate"

\* what kind of move from -> to is on this board
IsCastle(board, from, to) ==
    /\ getPieceInfo(board[from[1]][from[2]]).type = "K"
    /\ (to[2] - from[2] = 2 \/ from[2] - to[2] = 2)

IsEnPassant(board, from, to) ==
    /\ getPieceInfo(board[from[1]][from[2]]).type = "P"
    /\ to[2] # from[2]
    /\ board[to[1]][to[2]] = null

IsDoublePush(board, from, to) ==
    /\ getPieceInfo(board[from[1]][from[2]]).type = "P"
    /\ (to[1] - from[1] = 2 \/ from[1] - to[1] = 2)

IsPromotion(board, from, to) ==
    LET pieceInfo == getPieceInfo(board[from[1]][from[2]]) IN
    /\ pieceInfo.type = "P"
    /\ to[1] = (IF pieceInfo.color = "White" THEN 0 ELSE 7)

\* the piece a pawn becomes: the chosen kind, the pawn's colour and number
PromotedPiece(pawn, promotion) ==
    LET pawnInfo == getPieceInfo(pawn)
        n == CHOOSE k \in 1..8 : PieceLetter[pawnInfo.color]["P"] \o PawnNumbers[k] = pawn
    IN PieceLetter[pawnInfo.color][promotion] \o PawnNumbers[n]

\* the piece the move takes off the board it is played on (null: none)
CapturedPiece(board, from, to) ==
    IF IsEnPassant(board, from, to) THEN board[from[1]][to[2]]
    ELSE board[to[1]][to[2]]

\* the board after the move
apply_board(board, from, to, promotion) ==
    LET piece == board[from[1]][from[2]]
        placed == IF IsPromotion(board, from, to) THEN PromotedPiece(piece, promotion)
                  ELSE piece
        moved == [board EXCEPT ![to[1]][to[2]] = placed, ![from[1]][from[2]] = null]
    IN
    IF IsCastle(board, from, to)
    THEN IF to[2] > from[2]
         THEN [moved EXCEPT ![from[1]][5] = board[from[1]][7], ![from[1]][7] = null]
         ELSE [moved EXCEPT ![from[1]][3] = board[from[1]][0], ![from[1]][0] = null]
    ELSE IF IsEnPassant(board, from, to)
    THEN [moved EXCEPT ![from[1]][to[2]] = null]
    ELSE moved

\* the castling rights of the board after the move: a king's move clears its
\* side, a rook leaving its corner or taken on it clears that wing
apply_rights(board, rights, from, to) ==
    LET pieceInfo == getPieceInfo(board[from[1]][from[2]])
        side == pieceInfo.color
        afterMover ==
            IF pieceInfo.type = "K"
            THEN [rights EXCEPT ![side] = [K |-> FALSE, Q |-> FALSE]]
            ELSE IF pieceInfo.type = "R" /\ from = <<homeRank(side), 7>>
            THEN [rights EXCEPT ![side].K = FALSE]
            ELSE IF pieceInfo.type = "R" /\ from = <<homeRank(side), 0>>
            THEN [rights EXCEPT ![side].Q = FALSE]
            ELSE rights
        other == Opponent(side)
    IN
    IF to = <<homeRank(other), 7>> THEN [afterMover EXCEPT ![other].K = FALSE]
    ELSE IF to = <<homeRank(other), 0>> THEN [afterMover EXCEPT ![other].Q = FALSE]
    ELSE afterMover

\* the en_passant_target after the move: the square a double push skipped
apply_en_passant_target(board, from, to) ==
    IF IsDoublePush(board, from, to)
    THEN <<from[1] + pawnDirection(getPieceInfo(board[from[1]][from[2]]).color), from[2]>>
    ELSE noSquare

(***************************************************************************)
(* Capture mirror: the first Gameboard (handleSquareClick) removes the      *)
(* captured piece's id from the Secondary board.                           *)
(***************************************************************************)
\* a faulty mirror test, which the properties below must tell from
\* mirrorsCapture: a capture on either board mirrors
mirrorsCaptureFaulty(boardPlayed, targetPiece) == targetPiece # null

\* the capture is mirrored when it is made on the Main board
mirrorsCapture(boardPlayed, targetPiece) == boardPlayed = "main" /\ targetPiece # null

\* a faulty removal, which the properties below must tell from removeById:
\* the other board is left as it is
removeByIdFaulty(otherBoard, targetPiece) == otherBoard

\* in every row, the first cell holding targetPiece is cleared
removeById(otherBoard, targetPiece) ==
    [i \in Rows |-> [j \in Cols |->
        IF /\ otherBoard[i][j] = targetPiece
           /\ \A k \in 0..(j - 1) : otherBoard[i][k] # targetPiece
        THEN null
        ELSE otherBoard[i][j]]]

(***************************************************************************)
(* Twofold coordinator: submit(color, board_name, move), spec section 4.3  *)
(***************************************************************************)
otherBoardName(boardType) == IF boardType = "main" THEN "secondary" ELSE "main"

boardOf(boardType) == IF boardType = "main" THEN mainBoard ELSE secondaryBoard

outcomeOf(boardType) ==
    IF boardType = "main" THEN main_board_outcome ELSE secondary_board_outcome

winsOutcome(color) == IF color = "White" THEN "white_wins" ELSE "black_wins"

Outcomes == {"active", "white_wins", "black_wins", "draw_stalemate"}

\* steps 1-4 on the fields they read: the reason a move event is turned away
\* before its move is looked at, null when none
GateDecision(gameOver, toMove, phase, responding, outcomes, color, boardType) ==
    IF gameOver THEN "GameOver"
    ELSE IF color # toMove THEN "NotYourTurn"
    ELSE IF /\ boardType # phase
            /\ ~(outcomes[otherBoardName(boardType)] # "active" /\ outcomes[boardType] = "active")
         THEN "WrongBoard"
    ELSE IF responding # null /\ responding # boardType THEN "MustRespondToCheckOn"
    ELSE null

\* steps 1-4 in the state of the game
GateReason(color, boardType) ==
    GateDecision(game_over, turn, active_board_phase, is_responding_to_check_on_board,
                 [b \in Boards |-> outcomeOf(b)], color, boardType)

\* the board a turned-away move was expected on
GateExpectedBoard(reason) ==
    IF reason = "WrongBoard" THEN active_board_phase
    ELSE IF reason = "MustRespondToCheckOn" THEN is_responding_to_check_on_board
    ELSE null

\* step 5: the move is in legal_moves for the sender's piece on `from`, and
\* the piece kinds a pawn may become
PromotionChoices == {"Q", "R", "B", "N"}

\* a promotion names its piece; `legal` is legal_moves for the piece on `from`
Playable(board, color, from, to, promotion, legal) ==
    /\ getPieceInfo(board[from[1]][from[2]]).color = color
    /\ to \in legal
    /\ (IsPromotion(board, from, to) => promotion \in PromotionChoices)

\* the reason a move that is not playable is turned away with
MoveReason(board, color, from, to, promotion, legal) ==
    LET pieceInfo == getPieceInfo(board[from[1]][from[2]]) IN
    IF Playable(board, color, from, to, promotion, legal) THEN null
    ELSE IF pieceInfo = nullInfo \/ pieceInfo.color # color THEN "NoSuchPiece"
    ELSE IF to \in legal THEN "PromotionRequired"
    ELSE IF to \in pseudoLegalMoves(board, pieceInfo, from[1], from[2]) THEN "MovesIntoCheck"
    ELSE IF board[to[1]][to[2]] # null /\ getPieceInfo(board[to[1]][to[2]]).color = color
    THEN "DestinationBlocked"
    ELSE "PathBlocked"

\* steps 1-5 pass
Accepted(color, boardType, from, to, promotion, legal) ==
    /\ GateReason(color, boardType) = null
    /\ Playable(boardOf(boardType), color, from, to, promotion, legal)

\* the result sent back for submit(color, board_name, move)
Response(color, boardType, from, to, promotion) ==
    LET board == boardOf(boardType)
        legal == legal_moves(board, from, color, castling_rights[boardType],
                             en_passant_target[boardType])
        gate == GateReason(color, boardType)
    IN
    IF Accepted(color, boardType, from, to, promotion, legal)
    THEN [result |-> "ok", reason |-> null, expectedBoard |-> null]
    ELSE IF gate # null
    THEN [result |-> "illegal", reason |-> gate, expectedBoard |-> GateExpectedBoard(gate)]
    ELSE [result |-> "illegal",
          reason |-> MoveReason(board, color, from, to, promotion, legal),
          expectedBoard |-> null]

\* a faulty StatusOf, which the properties below must tell from StatusOf: it
\* never reports a check
StatusOfFaulty(class, inCheck) == class

\* the status step 8 reports from classify and is_in_check
StatusOf(class, inCheck) == IF class = "Active" /\ inCheck THEN "Check" ELSE class

\* step 8 for one board: the status of `side` on it
BoardStatus(board, outcome, side, rights, ep) ==
    IF outcome # "active" THEN "Resolved"
    ELSE StatusOf(classify(board, side, rights, ep), is_in_check(board, side))

\* a faulty NewOutcome, which the properties below must tell from NewOutcome:
\* a stalemate leaves the board Active
NewOutcomeFaulty(outcome, status, color) ==
    IF status = "Checkmate" THEN winsOutcome(color) ELSE outcome

\* the outcome of a board after step 8, the mover being `color`
NewOutcome(outcome, status, color) ==
    IF status = "Checkmate" THEN winsOutcome(color)
    ELSE IF status = "Stalemate" THEN "draw_stalemate"
    ELSE outcome

\* the winner once both boards are resolved
WinnerOf(mainOutcome, secondaryOutcome) ==
    LET outcomes == {mainOutcome, secondaryOutcome} IN
    IF "white_wins" \in outcomes /\ "black_wins" \notin outcomes THEN "White"
    ELSE IF "black_wins" \in outcomes /\ "white_wins" \notin outcomes THEN "Black"
    ELSE "Draw"

\* step 8: the game ends once both boards are resolved
GameEnds(mainOutcome, secondaryOutcome) ==
    mainOutcome # "active" /\ secondaryOutcome # "active"

\* what the `move` handler sends for submit(color, board_name, move): the new
\* snapshot to the room, or the error to the client that sent the move
MoveReply(color, boardType, from, to, promotion) ==
    IF Response(color, boardType, from, to, promotion).result = "ok"
    THEN [event |-> "game_update", audience |-> "room"]
    ELSE [event |-> "move_error", audience |-> "sender"]

\* a move turned away changes nothing
Reject == UNCHANGED vars

\* the castling rights after the move: castling on either board clears the
\* side's rights on both
NewRights(color, boardType, from, to) ==
    LET board == boardOf(boardType)
        rightsPlayed == apply_rights(board, castling_rights[boardType], from, to)
    IN
    IF IsCastle(board, from, to)
    THEN [b \in Boards |->
            [(IF b = boardType THEN rightsPlayed ELSE castling_rights[b])
                EXCEPT ![color] = [K |-> FALSE, Q |-> FALSE]]]
    ELSE [castling_rights EXCEPT ![boardType] = rightsPlayed]

\* step 7: the other board after the move, the captured piece's id removed
\* from it when the capture mirrors
Mirrored(boardType, from, to) ==
    LET board == boardOf(boardType)
        otherBoard == boardOf(otherBoardName(boardType))
        captured == CapturedPiece(board, from, to)
    IN
    IF mirrorsCapture(boardType, captured) \/ (captured # null /\ IsEnPassant(board, from, to))
    THEN removeById(otherBoard, captured)
    ELSE otherBoard

\* step 9: the boards the opponent is in check on being `checked`
Transition(color, boardType, newMainOutcome, newSecondaryOutcome, checked) ==
    LET other == otherBoardName(boardType)
        otherOutcome == IF other = "main" THEN newMainOutcome ELSE newSecondaryOutcome
    IN
    /\ main_board_outcome' = newMainOutcome
    /\ secondary_board_outcome' = newSecondaryOutcome
    /\ game_over' = GameEnds(newMainOutcome, newSecondaryOutcome)
    /\ IF GameEnds(newMainOutcome, newSecondaryOutcome)
       THEN /\ winner' = WinnerOf(newMainOutcome, newSecondaryOutcome)
            /\ is_responding_to_check_on_board' = null
            /\ UNCHANGED <<turn, active_board_phase>>
       ELSE /\ winner' = winner
            /\ turn' = Opponent(color)
            /\ IF checked # {}
               THEN \E b \in checked :
                        /\ is_responding_to_check_on_board' = b
                        /\ active_board_phase' = b
               ELSE /\ is_responding_to_check_on_board' = null
                    /\ active_board_phase' =
                          IF otherOutcome = "active" THEN other ELSE active_board_phase

\* steps 6-9 for a playable move
Accept(color, boardType, from, to, promotion) ==
    \E played \in {apply_board(boardOf(boardType), from, to, promotion)},
       mirrored \in {Mirrored(boardType, from, to)},
       newRights \in {NewRights(color, boardType, from, to)},
       newEp \in {[en_passant_target EXCEPT
                     ![boardType] = apply_en_passant_target(boardOf(boardType), from, to)]} :
    \E newMain \in {IF boardType = "main" THEN played ELSE mirrored},
       newSecondary \in {IF boardType = "main" THEN mirrored ELSE played} :
    \E mainStatus \in {BoardStatus(newMain, main_board_outcome, Opponent(color),
                                   newRights["main"], newEp["main"])},
       secondaryStatus \in {BoardStatus(newSecondary, secondary_board_outcome, Opponent(color),
                                        newRights["secondary"], newEp["secondary"])} :
        /\ mainBoard' = newMain
        /\ secondaryBoard' = newSecondary
        /\ castling_rights' = newRights
        /\ en_passant_target' = newEp
        /\ moves' = Append(moves, [color |-> color,
                                   piece |-> boardOf(boardType)[from[1]][from[2]],
                                   from |-> from, to |-> to, boardType |-> boardType])
        /\ reset_votes' = reset_votes
        /\ scenario' = scenario
        /\ UNCHANGED lobbyVars
        /\ Transition(color, boardType,
                      NewOutcome(main_board_outcome, mainStatus, color),
                      NewOutcome(secondary_board_outcome, secondaryStatus, color),
                      (IF mainStatus = "Check" THEN {"main"} ELSE {})
                          \cup (IF secondaryStatus = "Check" THEN {"secondary"} ELSE {}))

\* submit, the legal moves of the piece on `from` being `legal`
SubmitWith(color, boardType, from, to, promotion, legal) ==
    IF Accepted(color, boardType, from, to, promotion, legal)
    THEN Accept(color, boardType, from, to, promotion) /\ UNCHANGED <<roomVars, clientVars>>
    ELSE Reject

\* submit(color, board_name, move)
Submit(color, boardType, from, to, promotion) ==
    SubmitWith(color, boardType, from, to, promotion,
               legal_moves(boardOf(boardType), from, color,
                           castling_rights[boardType], en_passant_target[boardType]))

(***************************************************************************)
(* The client (Gameboard): its fields are those of the last game_update,   *)
(* which copies the server's, and it clicks on the board it shows.         *)
(***************************************************************************)
\* a faulty turn test, which the properties below must tell from isPlayerTurn
isPlayerTurnFaulty(colorProp) == TRUE

\* colorProp is null outside multiplayer mode
isPlayerTurn(colorProp) == colorProp = null \/ turn = colorProp

\* a faulty early out, which the properties below must tell from
\* ClickEarlyOut: it does not look at the server's phase
ClickEarlyOutFaulty(boardClicked, colorProp) ==
    \/ outcomeOf(boardClicked) # "active"
    \/ game_over
    \/ ~isPlayerTurn(colorProp)

\* the early outs of handleSquareClick: the click starts no move
ClickEarlyOut(boardClicked, colorProp) ==
    \/ outcomeOf(boardClicked) # "active"
    \/ game_over
    \/ boardClicked # active_board_phase
    \/ ~isPlayerTurn(colorProp)

\* a faulty end message, which the properties below must tell from
\* gameEndMessage: it announces a draw whoever won
gameEndMessageFaulty(dataWinner, mainOutcome, secondaryOutcome) == "The game is a Draw!"

\* the message the game_update handler shows once game_over is set
gameEndMessage(dataWinner, mainOutcome, secondaryOutcome) ==
    IF dataWinner = "Draw" THEN "The game is a Draw!"
    ELSE IF dataWinner # null THEN dataWinner \o " wins the game!"
    ELSE IF mainOutcome = "draw_stalemate" /\ secondaryOutcome = "draw_stalemate"
    THEN "The game is a Draw due to stalemate on both boards!"
    ELSE "The game has concluded."

\* a faulty getCastlingOptions, which the properties below must tell from
\* getCastlingOptions: it does not look at the rights
getCastlingOptionsFaulty(board, kingRow, kingCol, player, rights) ==
    LET home == IF player = "White" THEN 7 ELSE 0 IN
    IF kingRow # home \/ kingCol # 4 THEN {}
    ELSE (IF /\ getPieceInfo(board[home][7]).type = "R"
             /\ board[home][5] = null /\ board[home][6] = null
          THEN {[pos |-> <<home, 7>>, type |-> "kingside"]} ELSE {})
         \cup
         (IF /\ getPieceInfo(board[home][0]).type = "R"
             /\ board[home][1] = null /\ board[home][2] = null /\ board[home][3] = null
          THEN {[pos |-> <<home, 0>>, type |-> "queenside"]} ELSE {})

\* the rooks the selected king may castle with, as the client offers them:
\* the right, a rook on the corner, the squares between empty
getCastlingOptions(board, kingRow, kingCol, player, rights) ==
    LET home == IF player = "White" THEN 7 ELSE 0 IN
    IF kingRow # home \/ kingCol # 4 THEN {}
    ELSE (IF /\ rights.K
             /\ board[home][7] # null
             /\ getPieceInfo(board[home][7]).type = "R"
             /\ board[home][5] = null /\ board[home][6] = null
          THEN {[pos |-> <<home, 7>>, type |-> "kingside"]} ELSE {})
         \cup
         (IF /\ rights.Q
             /\ board[home][0] # null
             /\ getPieceInfo(board[home][0]).type = "R"
             /\ board[home][1] = null /\ board[home][2] = null /\ board[home][3] = null
          THEN {[pos |-> <<home, 0>>, type |-> "queenside"]} ELSE {})

\* first tap on a square of the board shown: the castling options added to
\* the moves of a king of the side to move, from the rights of the last
\* game_update
castlingOpts(boardType, row, col) ==
    LET pieceInfo == getPieceInfo(boardOf(boardType)[row][col]) IN
    IF pieceInfo.color = turn /\ pieceInfo.type = "K"
    THEN getCastlingOptions(boardOf(boardType), row, col, turn,
                            castling_rights[boardType][turn])
    ELSE {}

\* the values of the promotion modal's buttons
promotionChoices == {"Q", "R", "B", "N"}

\* a faulty promotion test, which the properties below must tell from
\* opensPromotionModal: the modal is never opened
opensPromotionModalFaulty(board, from, to, possibleMoves) == FALSE

\* second tap: a pawn going to its last rank on a highlighted square opens
\* the promotion modal (pendingPromotion) and nothing is emitted
opensPromotionModal(board, from, to, possibleMoves) ==
    LET info == getPieceInfo(board[from[1]][from[2]]) IN
    /\ info.type = "P"
    /\ (IF info.color = "White" THEN to[1] = 0 ELSE to[1] = 7)
    /\ to \in possibleMoves

\* second tap: the move events it emits, the castling tap apart
secondTap(board, from, to, possibleMoves, ep) ==
    LET info == getPieceInfo(board[from[1]][from[2]])
        isDiagonal == /\ (from[2] - to[2] = 1 \/ to[2] - from[2] = 1)
                      /\ \/ (turn = "White" /\ to[1] = from[1] - 1)
                         \/ (turn = "Black" /\ to[1] = from[1] + 1)
        isEnPassant == /\ info.type = "P"
                       /\ board[to[1]][to[2]] = null
                       /\ isDiagonal
                       /\ ep # noSquare /\ to = ep
    IN
    IF opensPromotionModal(board, from, to, possibleMoves) THEN {}
    ELSE IF isEnPassant \/ to \in possibleMoves
    THEN {[from |-> from, to |-> to, promotion |-> null]}
    ELSE {}

\* a button of the promotion modal: the pending move is emitted with the choice
handlePromotionChoice(pending, choice) ==
    [from |-> pending.from, to |-> pending.to, promotion |-> choice]

(***************************************************************************)
(* The lobby server: lobbyManager.ts and the socket handlers of            *)
(* backend/server.ts.  Time is counted in minutes.                         *)
(***************************************************************************)
Sockets == 1 .. MaxSockets
\* the username each client plays under
clientNames == <<"u1", "u2", "u3", "u1", "u2">>
Usernames == {clientNames[s] : s \in Sockets}
\* the handlers touch the lobby of one room id each: one id is explored
RoomIds == {"r1"}

\* LOBBY_TIMEOUT = 30 * 60 * 1000 ms
LOBBY_TIMEOUT == 30
\* the period of the cleanup timer, 5 * 60 * 1000 ms
CLEANUP_INTERVAL == 5

\* Map.set and Map.delete
mapSet(map, key, value) ==
    [k \in DOMAIN map \cup {key} |-> IF k = key THEN value ELSE map[k]]

mapDelete(map, key) == [k \in DOMAIN map \ {key} |-> map[k]]

\* Array.includes
includes(array, x) == \E i \in 1 .. Len(array) : array[i] = x

\* Array.indexOf, counted from 1; 0 when x is not in the array
indexOf(array, x) ==
    IF includes(array, x)
    THEN CHOOSE i \in 1 .. Len(array) :
             array[i] = x /\ \A j \in 1 .. (i - 1) : array[j] # x
    ELSE 0

\* Array.splice(index, 1)
splice(array, index) ==
    SubSeq(array, 1, index - 1) \o SubSeq(array, index + 1, Len(array))

\* createLobby at the time `time`: the lobby is set under its room id
createLobby(map, roomId, host, isPrivate, time) ==
    mapSet(map, roomId, [roomId |-> roomId, host |-> host, isPrivate |-> isPrivate,
                         createdAt |-> time, players |-> <<host>>])

\* a faulty getLobbies, which the properties below must tell from getLobbies:
\* it lists every lobby
getLobbiesFaulty(map) == {map[k] : k \in DOMAIN map}

\* getLobbies: the lobbies of the registry that are not private (the list's
\* order, newest first, is left out)
getLobbies(map) == {map[k] : k \in {r \in DOMAIN map : ~map[r].isPrivate}}

\* getLobby: the lobby of the room id, no lobby when there is none
getLobby(map, roomId) == {map[k] : k \in DOMAIN map \cap {roomId}}

\* removeLobby
removeLobby(map, roomId) == mapDelete(map, roomId)

\* addPlayerToLobby
addPlayerToLobby(map, roomId, player) ==
    IF roomId \in DOMAIN map /\ ~includes(map[roomId].players, player)
    THEN [map EXCEPT ![roomId].players = Append(@, player)]
    ELSE map

\* a faulty removePlayerFromLobby, which the properties below must tell from
\* removePlayerFromLobby: the lobby that loses its last player stays
removePlayerFromLobbyFaulty(map, roomId, player) ==
    IF roomId \in DOMAIN map /\ indexOf(map[roomId].players, player) > 0
    THEN [map EXCEPT ![roomId].players = splice(@, indexOf(@, player))]
    ELSE map

\* the value addPlayerToLobby returns
addPlayerToLobbyReturns(map, roomId, player) ==
    roomId \in DOMAIN map /\ ~includes(map[roomId].players, player)

\* the value removePlayerFromLobby returns
removePlayerFromLobbyReturns(map, roomId, player) ==
    roomId \in DOMAIN map /\ indexOf(map[roomId].players, player) > 0

\* removePlayerFromLobby: the lobby that loses its last player is removed
removePlayerFromLobby(map, roomId, player) ==
    IF roomId \in DOMAIN map /\ indexOf(map[roomId].players, player) > 0
    THEN \* lobby.players.splice(index, 1)
         IF Len(map[roomId].players) = 1
         THEN removeLobby(map, roomId)
         ELSE [map EXCEPT ![roomId].players = splice(@, indexOf(@, player))]
    ELSE map

\* the callback of startCleanupInterval at the time `time`
cleanup(map, time) ==
    [k \in {r \in DOMAIN map : ~(time - map[r].createdAt > LOBBY_TIMEOUT)} |-> map[k]]

\* a socket before its connection, and after its disconnection
noSocket == [status |-> "idle", username |-> null, room |-> null]
goneSocket == [status |-> "disconnected", username |-> null, room |-> null]

LobbyInit ==
    /\ lobbies = [k \in {} |-> null]
    /\ sockets = [s \in Sockets |-> noSocket]
    /\ rooms = [r \in RoomIds |-> {}]
    /\ now = 0
    /\ lastActivity = [r \in RoomIds |-> 0]

(***************************************************************************)
(* Initial state and the preset positions of the debug set-up endpoint     *)
(***************************************************************************)
emptyRow == [c \in Cols |-> null]

whitePieces == <<"R", "N", "B", "Q", "K", "B", "N", "R">>
blackPieces == <<"r", "n", "b", "q", "k", "b", "n", "r">>

\* a faulty initial board, which the properties below must tell from
\* createInitialBoard: the white pieces stand on the top rows
createInitialBoardFaulty ==
    [r \in Rows |->
        IF r = 0 THEN [c \in Cols |-> whitePieces[c + 1]]
        ELSE IF r = 1 THEN [c \in Cols |-> "P" \o PawnNumbers[c + 1]]
        ELSE IF r = 6 THEN [c \in Cols |-> "p" \o PawnNumbers[c + 1]]
        ELSE IF r = 7 THEN [c \in Cols |-> blackPieces[c + 1]]
        ELSE emptyRow]

createInitialBoard ==
    [r \in Rows |->
        IF r = 0 THEN [c \in Cols |-> blackPieces[c + 1]]
        ELSE IF r = 1 THEN [c \in Cols |-> "p" \o PawnNumbers[c + 1]]
        ELSE IF r = 6 THEN [c \in Cols |-> "P" \o PawnNumbers[c + 1]]
        ELSE IF r = 7 THEN [c \in Cols |-> whitePieces[c + 1]]
        ELSE emptyRow]

fullRights == [White |-> [K |-> TRUE, Q |-> TRUE], Black |-> [K |-> TRUE, Q |-> TRUE]]
noRights == [White |-> [K |-> FALSE, Q |-> FALSE], Black |-> [K |-> FALSE, Q |-> FALSE]]

\* a board holding the given <<row, col, piece>> placements
Position(placements) ==
    [r \in Rows |-> [c \in Cols |->
        IF \E pl \in placements : pl[1] = r /\ pl[2] = c
        THEN (CHOOSE pl \in placements : pl[1] = r /\ pl[2] = c)[3]
        ELSE null]]

\* the fields a preset installs; everything else is as after a reset
noVotes == [color \in Colors |-> FALSE]

Install(name, main, secondary, rights) ==
    /\ mainBoard' = main
    /\ secondaryBoard' = secondary
    /\ turn' = "White"
    /\ active_board_phase' = "main"
    /\ is_responding_to_check_on_board' = null
    /\ main_board_outcome' = "active"
    /\ secondary_board_outcome' = "active"
    /\ game_over' = FALSE
    /\ winner' = null
    /\ castling_rights' = rights
    /\ en_passant_target' = [b \in Boards |-> noSquare]
    /\ moves' = <<>>
    /\ reset_votes' = noVotes
    /\ scenario' = name
    /\ UNCHANGED <<lobbyVars, roomVars, clientVars>>

\* "in-check": on Main a7+ checks, and dxc7+ checks on Main and, the pawn p3
\* leaving the Secondary board with it, lets the bishop check there too
InCheckMain ==
    Position({<<7, 7, "K">>, <<2, 0, "P1">>, <<2, 3, "P4">>, <<0, 1, "k">>, <<1, 2, "p3">>})
InCheckSecondary ==
    Position({<<7, 7, "K">>, <<6, 7, "B4">>, <<0, 1, "k">>, <<1, 2, "p3">>})

\* "checkmate": cxb7 mates on Main; h2-h4 is a quiet double push that ends
\* beside the pawn g4, and Black has no check to give on Secondary
CheckmateMain ==
    Position({<<0, 2, "K">>, <<2, 1, "P2">>, <<2, 2, "P3">>, <<6, 7, "P8">>,
              <<0, 0, "k">>, <<1, 1, "p2">>, <<4, 6, "p7">>})
CheckmateSecondary ==
    Position({<<7, 7, "K">>, <<0, 0, "k">>, <<1, 1, "p2">>})

\* "stalemate": gxh7 on Main takes the last mobile black piece off the
\* Secondary board; on Main h8=Q then mates, exf6 stalemates
StalemateMain ==
    Position({<<2, 1, "K">>, <<1, 0, "P1">>, <<3, 4, "P5">>, <<2, 6, "P7">>,
              <<0, 0, "k">>, <<1, 5, "p6">>, <<1, 7, "p8">>})
StalemateSecondary ==
    Position({<<2, 1, "K">>, <<1, 0, "P1">>, <<3, 4, "P5">>,
              <<0, 0, "k">>, <<2, 4, "p6">>, <<1, 7, "p8">>})

\* "castling-ready": on Main O-O checks along the f-file and Rxh8 is a quiet
\* capture of a rook; on Secondary Black may castle queenside, f8 is attacked
\* by the knight, and the rook d2 stands between the bishop a5 and the king e1
CastlingMain ==
    Position({<<7, 4, "K">>, <<7, 7, "R">>, <<0, 5, "k">>, <<0, 6, "n">>, <<0, 7, "r">>})
CastlingSecondary ==
    Position({<<7, 4, "K">>, <<7, 7, "R">>, <<2, 6, "N">>,
              <<0, 4, "k">>, <<0, 0, "r">>, <<0, 7, "r">>, <<6, 3, "r">>, <<3, 0, "b">>})
CastlingRights ==
    [main |-> [White |-> [K |-> TRUE, Q |-> FALSE], Black |-> [K |-> FALSE, Q |-> FALSE]],
     secondary |-> [White |-> [K |-> TRUE, Q |-> FALSE], Black |-> [K |-> TRUE, Q |-> TRUE]]]

\* "en-passant-ready": on Main a2-a4 is a double push; on Secondary d7-d5
\* checks the king e4 and e5xd6 en passant answers it
EnPassantMain ==
    Position({<<7, 4, "K">>, <<6, 0, "P1">>, <<0, 4, "k">>, <<1, 3, "p4">>})
EnPassantSecondary ==
    Position({<<4, 4, "K">>, <<3, 4, "P5">>, <<0, 4, "k">>, <<1, 3, "p4">>})

Scenarios == {"in_check", "checkmate", "stalemate", "castling", "en_passant"}

scenarioMain(name) ==
    CASE name = "in_check" -> InCheckMain
      [] name = "checkmate" -> CheckmateMain
      [] name = "stalemate" -> StalemateMain
      [] name = "castling" -> CastlingMain
      [] name = "en_passant" -> EnPassantMain

scenarioSecondary(name) ==
    CASE name = "in_check" -> InCheckSecondary
      [] name = "checkmate" -> CheckmateSecondary
      [] name = "stalemate" -> StalemateSecondary
      [] name = "castling" -> CastlingSecondary
      [] name = "en_passant" -> EnPassantSecondary

scenarioRights(name) ==
    IF name = "castling" THEN CastlingRights ELSE [b \in Boards |-> noRights]

\* the swap timer: no timer set (the ref is null), a timer that will fire, or
\* the id of a timer that was cancelled or has fired (the ref is not null)
noTimeout == [current |-> "null", kind |-> "none", phase |-> "main"]

staleTimeout == [current |-> "stale", kind |-> "none", phase |-> "main"]

noEvent == [path |-> "none", boardType |-> "main"]

\* the Gameboard before it is mounted: the initial values of its state
ClientInit ==
    /\ socket = FALSE
    /\ playerColor = null
    /\ activeBoard = "main"
    /\ isManualBoardSwitch = FALSE
    /\ boardSwapTimeoutRef = noTimeout
    /\ manualSwitchTimeoutRef = "null"
    /\ selectedPieceSquare = FALSE
    /\ castlingCandidate = FALSE
    /\ pendingPromotion = null
    /\ emitted = noEvent
    /\ lastEvent = "none"

Init ==
    /\ mainBoard = createInitialBoard
    /\ secondaryBoard = createInitialBoard
    /\ turn = "White"
    /\ active_board_phase = "main"
    /\ is_responding_to_check_on_board = null
    /\ main_board_outcome = "active"
    /\ secondary_board_outcome = "active"
    /\ game_over = FALSE
    /\ winner = null
    /\ castling_rights = [b \in Boards |-> fullRights]
    /\ en_passant_target = [b \in Boards |-> noSquare]
    /\ moves = <<>>
    /\ reset_votes = noVotes
    /\ scenario = null
    /\ LobbyInit
    /\ requests = {}
    /\ queue = [member \in Colors |-> <<>>]
    /\ received = [member \in Colors |-> <<>>]
    /\ ClientInit

\* POST /api/debug/setup/{scenario}
DebugSetup(name) ==
    Install(name, scenarioMain(name), scenarioSecondary(name), scenarioRights(name))

\* the accepted moves explored in the game at hand
PlyBound ==
    IF reset_votes # noVotes THEN MaxVotedPly
    ELSE IF scenario = null THEN MaxOpeningPly
    ELSE IF scenario = "castling" THEN MaxCastlingPly
    ELSE MaxPly

\* a move event arrives.  Of the events turned away before the move is looked
\* at, and of those naming no piece of the sender, one stands for all.
MoveEvent ==
    /\ Len(moves) < PlyBound
    /\ \E color \in Colors, boardType \in Boards :
       \E from \in (IF GateReason(color, boardType) # null THEN {<<0, 0>>} ELSE Squares) :
       \E legal \in {legal_moves(boardOf(boardType), from, color, castling_rights[boardType],
                                 en_passant_target[boardType])} :
       \E to \in (IF GateReason(color, boardType) = null
                     /\ getPieceInfo(boardOf(boardType)[from[1]][from[2]]).color = color
                  THEN Squares ELSE {from}) :
       \E promotion \in (IF IsPromotion(boardOf(boardType), from, to)
                         THEN PromotionChoices \cup {null, "K"} ELSE {null}) :
           SubmitWith(color, boardType, from, to, promotion, legal)

\* a faulty makeMove, which the properties below must tell from makeMove: it
\* sends the whole event on, whatever the client put beside the move
makeMoveFaulty(data) == [event |-> "moveMade", audience |-> "room", payload |-> data]

\* what the `makeMove` handler of setupSocketHandlers sends: the move as it
\* came, to every client of the room
makeMove(data) == [event |-> "moveMade", audience |-> "room", payload |-> data.move]

\* a makeMove event arrives: the handler looks at no game and keeps none
MakeMove ==
    /\ \E from \in {<<6, 4>>, <<0, 0>>}, to \in {<<4, 4>>, <<0, 0>>} :
          makeMove([gameId |-> "room", move |-> [from |-> from, to |-> to]]).audience = "room"
    /\ UNCHANGED vars

(***************************************************************************)
(* Reset: the room holds two players, White and Black.                     *)
(***************************************************************************)
\* the game is re-initialized: fresh boards, no moves, no votes
Reinitialize ==
    Install(null, createInitialBoard, createInitialBoard, [b \in Boards |-> fullRights])

\* a vote of the colour is recorded (reset_votes_update); with the other
\* colour's vote standing, the game is re-initialized (game_reset)
RecordVote(color) ==
    IF reset_votes[Opponent(color)]
    THEN Reinitialize
    ELSE /\ reset_votes' = [reset_votes EXCEPT ![color] = TRUE]
         /\ UNCHANGED <<mainBoard, secondaryBoard, turn, active_board_phase,
                        is_responding_to_check_on_board, main_board_outcome,
                        secondary_board_outcome, game_over, winner, castling_rights,
                        en_passant_target, moves, scenario>>
         /\ UNCHANGED <<lobbyVars, roomVars, clientVars>>

\* the `vote_reset` and `reset` events of a player of the colour `sender`
\* (null: a local game, which has no colours)
OnReset(sender, e) ==
    IF e.event = "vote_reset" THEN RecordVote(e.color)
    ELSE IF sender # null THEN RecordVote(sender)
    ELSE Reinitialize

\* resetBoard: the client emits `reset` for its room
resetBoard == [event |-> "reset", color |-> null]

\* a faulty handleVoteReset, which the properties below must tell from
\* handleVoteReset: it votes in the other colour's name
handleVoteResetFaulty(colorProp, myColor) ==
    [event |-> "vote_reset", color |-> Opponent(myColor)]

\* handleVoteReset: a player votes in its own colour, a local game resets
handleVoteReset(colorProp, myColor) ==
    IF colorProp # null THEN [event |-> "vote_reset", color |-> myColor]
    ELSE resetBoard

\* handleFinishGame: with a winner and a board picked in the finish modal the
\* client emits `finish_game`
handleFinishGame(pickedWinner, checkmateBoard) ==
    IF pickedWinner # null /\ checkmateBoard # null
    THEN {[event |-> "finish_game", winner |-> pickedWinner, board |-> checkmateBoard]}
    ELSE {}

\* the player of the colour presses "Reset Both Boards"; votes are explored
\* in the first MaxVotedPly plies of a game
VoteReset(color) ==
    /\ Len(moves) <= MaxVotedPly
    /\ OnReset(color, handleVoteReset(color, color))

\* the player of the colour presses "Play Again" in the game-over modal
PlayAgain(color) == game_over /\ OnReset(color, resetBoard)

\* a player confirms the finish modal: the game is persisted and reset
FinishGame ==
    \E pickedWinner \in Colors, checkmateBoard \in Boards :
        /\ handleFinishGame(pickedWinner, checkmateBoard) # {}
        /\ Reinitialize

Next ==
    \/ MoveEvent
    \/ MakeMove
    \/ \E name \in Scenarios : DebugSetup(name)
    \/ \E color \in Colors : VoteReset(color)
    \/ \E color \in Colors : PlayAgain(color)
    \/ FinishGame

Spec == Init /\ [][Next]_vars

(***************************************************************************)
(* The lobby server's handlers, backend/server.ts.                         *)
(***************************************************************************)
connected(s) == sockets[s].status = "connected"

\* io.on("connection"): a client connects
Connect(s) ==
    /\ sockets[s].status = "idle"
    /\ \A earlier \in Sockets : earlier < s => sockets[earlier].status # "idle"
    /\ sockets' = [sockets EXCEPT ![s].status = "connected"]
    /\ UNCHANGED <<lobbies, rooms, now, lastActivity>>
    /\ UNCHANGED <<gameVars, roomVars, clientVars>>

\* socket.on("join")
Join(s, username, room) ==
    /\ connected(s)
    /\ rooms' = [rooms EXCEPT ![room] = @ \cup {s}]
    /\ sockets' = [sockets EXCEPT ![s].username = username, ![s].room = room]
    /\ lobbies' = IF getLobby(lobbies, room) # {}
                  THEN addPlayerToLobby(lobbies, room, username)
                  ELSE lobbies
    /\ lastActivity' = IF getLobby(lobbies, room) # {}
                       THEN [lastActivity EXCEPT ![room] = now]
                       ELSE lastActivity
    /\ UNCHANGED now
    /\ UNCHANGED <<gameVars, roomVars, clientVars>>

\* socket.on("create_lobby")
CreateLobby(s, roomId, host, isPrivate) ==
    /\ connected(s)
    /\ lobbies' = createLobby(lobbies, roomId, host, isPrivate, now)
    /\ lastActivity' = [lastActivity EXCEPT ![roomId] = now]
    /\ UNCHANGED <<sockets, rooms, now>>
    /\ UNCHANGED <<gameVars, roomVars, clientVars>>

\* the `lobby_list` event a socket is sent in reply to `get_lobbies`
lobby_list == getLobbies(lobbies)

\* socket.on("get_lobbies"): the reply is emitted, nothing is changed
GetLobbies(s) ==
    /\ connected(s)
    /\ UNCHANGED vars

\* socket.on("disconnect"): the socket leaves its socket.io rooms
Disconnect(s) ==
    /\ connected(s)
    /\ lobbies' = IF sockets[s].username # null /\ sockets[s].room # null
                  THEN removePlayerFromLobby(lobbies, sockets[s].room, sockets[s].username)
                  ELSE lobbies
    /\ sockets' = [sockets EXCEPT ![s] = goneSocket]
    /\ rooms' = [r \in RoomIds |-> rooms[r] \ {s}]
    /\ UNCHANGED <<now, lastActivity>>
    /\ UNCHANGED <<gameVars, roomVars, clientVars>>

\* the cleanup timer fires, CLEANUP_INTERVAL after its last run
Tick ==
    /\ now < MaxTicks * CLEANUP_INTERVAL
    /\ now' = now + CLEANUP_INTERVAL
    /\ lobbies' = cleanup(lobbies, now')
    /\ UNCHANGED <<sockets, rooms, lastActivity>>
    /\ UNCHANGED <<gameVars, roomVars, clientVars>>

LobbyNext ==
    \/ \E s \in Sockets : Connect(s)
    \/ \E s \in Sockets, room \in RoomIds : Join(s, clientNames[s], room)
    \/ \E s \in Sockets, roomId \in RoomIds, isPrivate \in BOOLEAN :
           CreateLobby(s, roomId, clientNames[s], isPrivate)
    \/ \E s \in Sockets : GetLobbies(s)
    \/ \E s \in Sockets : Disconnect(s)
    \/ Tick

LobbySpec == Init /\ [][LobbyNext]_vars

(***************************************************************************)
(* One room under concurrent requests: the two players send move events,   *)
(* which the room handles one at a time (spec section 5), and every        *)
(* socket delivers what it is sent in send order.                          *)
(***************************************************************************)
\* the snapshot of the Game in game_state, game_update and game_reset
Snapshot ==
    [mainBoard |-> mainBoard, secondaryBoard |-> secondaryBoard, turn |-> turn,
     active_board_phase |-> active_board_phase, moves |-> moves, winner |-> winner,
     game_over |-> game_over, main_board_outcome |-> main_board_outcome,
     secondary_board_outcome |-> secondary_board_outcome,
     is_responding_to_check_on_board |-> is_responding_to_check_on_board,
     en_passant_target |-> en_passant_target, castling_rights |-> castling_rights,
     reset_votes |-> reset_votes]

\* a faulty emit to the room, which the properties below must tell from
\* emitToRoom: Black's socket is sent the event ahead of what waits in its queue
emitToRoomFaulty(queues, event) ==
    [member \in Colors |-> IF member = "Black" THEN <<event>> \o queues[member]
                           ELSE Append(queues[member], event)]

\* io.to(room).emit: the event is sent to the socket of every member
emitToRoom(queues, event) == [member \in Colors |-> Append(queues[member], event)]

\* the boards a client attaches to a move event (currentBoardState): the
\* start position, which is what it shows before the first update arrives,
\* and an empty board
ClientBoards == {createInitialBoard, [r \in Rows |-> emptyRow]}

\* the move events the players send, each with either of the boards
RoomMoves ==
    {[color |-> m[1], boardType |-> m[2], from |-> m[3], to |-> m[4], promotion |-> null,
      board |-> board] :
        board \in ClientBoards,
        m \in {<<"White", "main", <<6, 4>>, <<4, 4>>>>,
               <<"White", "main", <<6, 3>>, <<4, 3>>>>,
               <<"Black", "secondary", <<1, 4>>, <<3, 4>>>>,
               <<"Black", "main", <<1, 4>>, <<3, 4>>>>}}

\* a player's client emits `move`
SendMove(e) ==
    /\ e \notin requests
    /\ Cardinality(requests) < MaxInFlight
    /\ requests' = requests \cup {e}
    /\ UNCHANGED <<queue, received>>
    /\ UNCHANGED <<gameVars, lobbyVars, clientVars>>

\* what the `move` handler sends for the event: the snapshot to the room or
\* the error to its sender
onMoveReply(e) == MoveReply(e.color, e.boardType, e.from, e.to, e.promotion)

\* a faulty `move` handler, which the properties below must tell from
\* onMove: it turns away a move whose board is not the board it holds
onMoveFaulty(e) ==
    IF onMoveReply(e).audience = "room" /\ e.board = boardOf(e.boardType)
    THEN /\ Accept(e.color, e.boardType, e.from, e.to, e.promotion)
         /\ queue' = emitToRoom(queue, Snapshot')
    ELSE UNCHANGED <<gameVars, lobbyVars, clientVars, queue>>

\* the `move` handler: an accepted move is committed and its snapshot is
\* sent to the room; the board of the event is not looked at
onMove(e) ==
    IF onMoveReply(e).audience = "room"
    THEN /\ Accept(e.color, e.boardType, e.from, e.to, e.promotion)
         /\ queue' = emitToRoom(queue, Snapshot')
    ELSE UNCHANGED <<gameVars, lobbyVars, clientVars, queue>>

\* the room handles one of the move events in flight
HandleMove(e) ==
    /\ e \in requests
    /\ requests' = requests \ {e}
    /\ received' = received
    /\ UNCHANGED clientVars
    /\ onMove(e)

\* the socket of a member delivers the event at the head of its queue
Deliver(member) ==
    /\ queue[member] # <<>>
    /\ received' = [received EXCEPT ![member] = Append(@, Head(queue[member]))]
    /\ queue' = [queue EXCEPT ![member] = Tail(@)]
    /\ UNCHANGED requests
    /\ UNCHANGED <<gameVars, lobbyVars, clientVars>>

RoomNext ==
    \/ \E e \in RoomMoves : SendMove(e)
    \/ \E e \in RoomMoves : HandleMove(e)
    \/ \E member \in Colors : Deliver(member)

RoomSpec == Init /\ [][RoomNext]_vars

(***************************************************************************)
(* Properties.  "Attacked" is stated here from the rules of chess, apart   *)
(* from the move generators above.                                         *)
(***************************************************************************)
Sign(n) == IF n > 0 THEN 1 ELSE IF n < 0 THEN -1 ELSE 0
Dist(n) == IF n < 0 THEN -n ELSE n

\* the squares strictly between two squares of one rank, file or diagonal
Between(a, b) ==
    {<<a[1] + k * Sign(b[1] - a[1]), a[2] + k * Sign(b[2] - a[2])>> :
        k \in 1..((IF Dist(b[1] - a[1]) > Dist(b[2] - a[2])
                   THEN Dist(b[1] - a[1]) ELSE Dist(b[2] - a[2])) - 1)}

ClearBetween(board, a, b) == \A s \in Between(a, b) : board[s[1]][s[2]] = null

\* the piece on square a attacks square b
Attacks(board, a, b) ==
    LET info == getPieceInfo(board[a[1]][a[2]])
        dr == b[1] - a[1]
        dc == b[2] - a[2]
        straight == (dr = 0 \/ dc = 0) /\ a # b
        diagonal == Dist(dr) = Dist(dc) /\ a # b
    IN
    CASE info.type = "P" -> dr = (IF info.color = "White" THEN -1 ELSE 1) /\ Dist(dc) = 1
      [] info.type = "N" -> {Dist(dr), Dist(dc)} = {1, 2}
      [] info.type = "K" -> Dist(dr) <= 1 /\ Dist(dc) <= 1 /\ a # b
      [] info.type = "R" -> straight /\ ClearBetween(board, a, b)
      [] info.type = "B" -> diagonal /\ ClearBetween(board, a, b)
      [] info.type = "Q" -> (straight \/ diagonal) /\ ClearBetween(board, a, b)
      [] OTHER -> FALSE

\* a king of the colour stands on a square a piece of the other colour attacks
KingAttacked(board, color) ==
    \E k \in Squares :
        /\ board[k[1]][k[2]] = PieceLetter[color]["K"]
        /\ \E a \in Squares :
            /\ getPieceInfo(board[a[1]][a[2]]).color = Opponent(color)
            /\ Attacks(board, a, k)

lastMove == moves[Len(moves)]

\* this step is an accepted move
MoveAccepted == Len(moves') = Len(moves) + 1

\* the record of the move this step accepts
moved == moves'[Len(moves')]

\* a board and its outcome after this step
BoardAfter(boardType) == IF boardType = "main" THEN mainBoard' ELSE secondaryBoard'
OutcomeAfter(boardType) ==
    IF boardType = "main" THEN main_board_outcome' ELSE secondary_board_outcome'

\* the Active boards on which the king of the colour is attacked after this step
CheckedAfter(color) ==
    {b \in Boards : OutcomeAfter(b) = "active" /\ KingAttacked(BoardAfter(b), color)}

\* moves offered to the handler where its verdict does not depend on the move
SampleMoves == {<<<<6, 4>>, <<4, 4>>>>, <<<<1, 4>>, <<3, 4>>>>, <<<<0, 0>>, <<0, 0>>>>}

(***************************************************************************)
(* C1: while is_responding_to_check_on_board names a board B, a submit by  *)
(* the side to move on the other board is turned away with                 *)
(* MustRespondToCheckOn and expectedBoard = B, every accepted move is on   *)
(* B, and an accepted response on B that gives no new check leaves         *)
(* is_responding_to_check_on_board none.                                   *)
(***************************************************************************)
C1_CheckResponseGating ==
    [][(is_responding_to_check_on_board # null /\ ~game_over) =>
          /\ \A m \in SampleMoves :
                Response(turn, otherBoardName(is_responding_to_check_on_board),
                         m[1], m[2], null)
                  = [result |-> "illegal", reason |-> "MustRespondToCheckOn",
                     expectedBoard |-> is_responding_to_check_on_board]
          /\ (MoveAccepted => moved.boardType = is_responding_to_check_on_board)
          /\ (MoveAccepted /\ CheckedAfter(Opponent(moved.color)) = {}
                => is_responding_to_check_on_board' = null)]_vars

\* C1 without the reason: the submit on the other board is turned away, every
\* accepted move is on B, and a response giving no new check clears the field
C1_WithoutReason ==
    [][(is_responding_to_check_on_board # null /\ ~game_over) =>
          /\ \A m \in SampleMoves :
                Response(turn, otherBoardName(is_responding_to_check_on_board),
                         m[1], m[2], null).result = "illegal"
          /\ (MoveAccepted => moved.boardType = is_responding_to_check_on_board)
          /\ (MoveAccepted /\ CheckedAfter(Opponent(moved.color)) = {}
                => is_responding_to_check_on_board' = null)]_vars

(***************************************************************************)
(* C2 as stated: after an accepted move that leaves the mover's opponent   *)
(* in check on a board B that is still Active, turn is the opponent and    *)
(* both active_board_phase and is_responding_to_check_on_board are B.      *)
(***************************************************************************)
C2_EveryCheckedBoard ==
    [][MoveAccepted =>
          \A B \in CheckedAfter(Opponent(moved.color)) :
              /\ turn' = Opponent(moved.color)
              /\ active_board_phase' = B
              /\ is_responding_to_check_on_board' = B]_vars

(***************************************************************************)
(* C2: after an accepted move that leaves the mover's opponent in check on *)
(* some Active board, turn is the opponent, and active_board_phase and     *)
(* is_responding_to_check_on_board both name one board on which the        *)
(* opponent is in check and which is Active.                               *)
(***************************************************************************)
C2_SomeCheckedBoard ==
    [][(MoveAccepted /\ CheckedAfter(Opponent(moved.color)) # {}) =>
          /\ turn' = Opponent(moved.color)
          /\ is_responding_to_check_on_board' \in CheckedAfter(Opponent(moved.color))
          /\ active_board_phase' = is_responding_to_check_on_board']_vars

\* the side to move answers a check given by the last move, on the board of the phase
C2_Witness ==
    /\ moves # <<>>
    /\ ~game_over
    /\ turn = Opponent(lastMove.color)
    /\ is_responding_to_check_on_board = active_board_phase
    /\ outcomeOf(active_board_phase) = "active"
    /\ KingAttacked(boardOf(active_board_phase), turn)

\* the last move left the opponent in check on both boards
C2_DoubleCheck ==
    /\ moves # <<>>
    /\ ~game_over
    /\ \A b \in Boards : outcomeOf(b) = "active" /\ KingAttacked(boardOf(b), turn)

C4_OnlySideToMove ==
    [][/\ \A boardType \in Boards, m \in SampleMoves :
            /\ Response(Opponent(turn), boardType, m[1], m[2], null).result = "illegal"
            /\ ~game_over =>
                  Response(Opponent(turn), boardType, m[1], m[2], null).reason = "NotYourTurn"
       /\ \A boardClicked \in Boards : ClickEarlyOut(boardClicked, Opponent(turn))
       /\ (MoveAccepted => moved.color = turn)]_vars

\* a move has been played, and of the two colours only the one to move can play the next
C4_Witness ==
    /\ moves # <<>>
    /\ ~game_over
    /\ lastMove.color = Opponent(turn)
    /\ Response(Opponent(turn), active_board_phase, <<0, 0>>, <<0, 0>>, null).reason = "NotYourTurn"
    /\ ClickEarlyOut(active_board_phase, Opponent(turn))
    /\ ~ClickEarlyOut(active_board_phase, turn)

(***************************************************************************)
(* C5: the game not being over, a submit by the side to move on a board    *)
(* other than active_board_phase is turned away as WrongBoard, unless the  *)
(* other board is resolved and the board of the submit is Active, and the  *)
(* client starts no move on a board other than the phase.  The gate is     *)
(* also taken over every phase, outcome and check-response value.          *)
(***************************************************************************)
C5_WrongBoard ==
    /\ \A color \in Colors, phase \in Boards, responding \in Boards \cup {null},
          outcomes \in [Boards -> Outcomes] :
          LET boardType == otherBoardName(phase)
              excepted == outcomes[phase] # "active" /\ outcomes[boardType] = "active"
          IN  GateDecision(FALSE, color, phase, responding, outcomes, color, boardType)
                 = "WrongBoard"  <=>  ~excepted
    /\ ~game_over =>
          \A m \in SampleMoves :
              LET boardType == otherBoardName(active_board_phase)
                  excepted == /\ outcomeOf(active_board_phase) # "active"
                              /\ outcomeOf(boardType) = "active"
                  r == Response(turn, boardType, m[1], m[2], null)
              IN  /\ ~excepted => r = [result |-> "illegal", reason |-> "WrongBoard",
                                        expectedBoard |-> active_board_phase]
                  /\ excepted => r.reason # "WrongBoard"
                  /\ ClickEarlyOut(boardType, turn)

\* after a move, a submit by the side to move on the board that is not the
\* phase is turned away as WrongBoard, both boards being Active
C5_Witness ==
    /\ moves # <<>>
    /\ ~game_over
    /\ main_board_outcome = "active" /\ secondary_board_outcome = "active"
    /\ Response(turn, otherBoardName(active_board_phase), <<0, 0>>, <<0, 0>>, null).reason
          = "WrongBoard"
    /\ ClickEarlyOut(otherBoardName(active_board_phase), turn)
    /\ ~ClickEarlyOut(active_board_phase, turn)

(***************************************************************************)
(* C6: game_over is true exactly when a checkmate has been recorded on     *)
(* either board or both boards are non-Active; a checkmate on Main while   *)
(* Secondary is still Active ends the game.                                *)
(***************************************************************************)
C6_GameOverIff ==
    game_over <=>
        \/ main_board_outcome \in {"white_wins", "black_wins"}
        \/ secondary_board_outcome \in {"white_wins", "black_wins"}
        \/ (main_board_outcome # "active" /\ secondary_board_outcome # "active")

\* C6 in one direction only: the game is over once both boards are resolved, and only then
C6_BothResolved ==
    game_over <=> (main_board_outcome # "active" /\ secondary_board_outcome # "active")

(***************************************************************************)
(* C7: a board stalemated while the other stays Active is frozen: the game *)
(* goes on, no later move is accepted on it and none of its squares        *)
(* changes with an accepted move.                                          *)
(***************************************************************************)
C7_StalemateFreezes ==
    [][\A b \in Boards :
          /\ (/\ MoveAccepted
              /\ outcomeOf(b) = "active"
              /\ OutcomeAfter(b) = "draw_stalemate"
              /\ OutcomeAfter(otherBoardName(b)) = "active") => ~game_over'
          /\ (MoveAccepted /\ outcomeOf(b) = "draw_stalemate") =>
                /\ moved.boardType # b
                /\ BoardAfter(b) = boardOf(b)]_vars

\* C7 without the squares: the game goes on and no move is accepted on the board
C7_NoMoveOnFrozen ==
    [][\A b \in Boards :
          /\ (/\ MoveAccepted
              /\ outcomeOf(b) = "active"
              /\ OutcomeAfter(b) = "draw_stalemate"
              /\ OutcomeAfter(otherBoardName(b)) = "active") => ~game_over'
          /\ (MoveAccepted /\ outcomeOf(b) = "draw_stalemate") => moved.boardType # b]_vars

\* the outcomes of the two boards, as a set
BothOutcomes == {main_board_outcome, secondary_board_outcome}

(***************************************************************************)
(* C8: with one board DrawStalemate and the other ended in checkmate the   *)
(* game is over and winner is the side that gave the mate; with both       *)
(* boards DrawStalemate the game is over and winner is Draw, for either    *)
(* colour and either board; the client announces that winner.              *)
(***************************************************************************)
C8_WinnerAtGameEnd ==
    /\ BothOutcomes = {"draw_stalemate", "white_wins"} => game_over /\ winner = "White"
    /\ BothOutcomes = {"draw_stalemate", "black_wins"} => game_over /\ winner = "Black"
    /\ BothOutcomes = {"draw_stalemate"} => game_over /\ winner = "Draw"
    /\ \A color \in Colors :
          /\ WinnerOf("draw_stalemate", winsOutcome(color)) = color
          /\ WinnerOf(winsOutcome(color), "draw_stalemate") = color
    /\ WinnerOf("draw_stalemate", "draw_stalemate") = "Draw"
    /\ (game_over /\ "draw_stalemate" \in BothOutcomes) =>
          gameEndMessage(winner, main_board_outcome, secondary_board_outcome)
            = (IF BothOutcomes = {"draw_stalemate"} THEN "The game is a Draw!"
               ELSE IF "white_wins" \in BothOutcomes THEN "White wins the game!"
               ELSE "Black wins the game!")

\* a checkmate on one board after a stalemate on the other: the mater has won
C8_Witness ==
    /\ game_over
    /\ BothOutcomes = {"draw_stalemate", "white_wins"}
    /\ winner = "White"
    /\ lastMove.color = "White"

\* both boards stalemated: the game is drawn
C8_WitnessDraw ==
    /\ game_over
    /\ BothOutcomes = {"draw_stalemate"}
    /\ winner = "Draw"

\* the moves of the side to move on the board of the phase that getValidMoves'
\* generators give and that leave the mover's own king attacked
SelfCheckMoves ==
    UNION {{<<from, to>> :
              to \in {t \in pseudoLegalMoves(boardOf(active_board_phase),
                                             getPieceInfo(boardOf(active_board_phase)[from[1]][from[2]]),
                                             from[1], from[2]) :
                         KingAttacked(tempBoard(boardOf(active_board_phase),
                                                boardOf(active_board_phase)[from[1]][from[2]],
                                                from[1], from[2], t), turn)}} :
           from \in {sq \in Squares :
                       getPieceInfo(boardOf(active_board_phase)[sq[1]][sq[2]]).color = turn}}

(***************************************************************************)
(* C9: after an accepted move the mover's king on the board of the move is *)
(* not attacked; a move that would leave the mover's own king in check is  *)
(* not in the legal-move set and is turned away as MovesIntoCheck.         *)
(***************************************************************************)
C9_NoSelfCheck ==
    /\ moves # <<>> => ~KingAttacked(boardOf(lastMove.boardType), lastMove.color)
    /\ ~game_over =>
          \A m \in SelfCheckMoves :
              /\ m[2] \notin getValidMoves(boardOf(active_board_phase),
                                           boardOf(active_board_phase)[m[1][1]][m[1][2]],
                                           m[1][1], m[1][2], turn)
              /\ m[2] \notin legal_moves(boardOf(active_board_phase), m[1], turn,
                                         castling_rights[active_board_phase],
                                         en_passant_target[active_board_phase])
              /\ Response(turn, active_board_phase, m[1], m[2], "Q")
                    = [result |-> "illegal", reason |-> "MovesIntoCheck",
                       expectedBoard |-> null]

\* a move has been played and the side to move has a move that would leave
\* its own king attacked
C9_Witness ==
    /\ moves # <<>>
    /\ ~game_over
    /\ SelfCheckMoves # {}

(***************************************************************************)
(* C10 as stated: after any accepted move the king of the side to move on  *)
(* the board of active_board_phase is not in check.                        *)
(***************************************************************************)
C10_NeverInCheck ==
    moves # <<>> => ~KingAttacked(boardOf(active_board_phase), turn)

(***************************************************************************)
(* C10: after an accepted move the mover's own king on the board of the    *)
(* move is not in check, and the king of the side to move on the board of  *)
(* active_board_phase is in check exactly when                             *)
(* is_responding_to_check_on_board names that board; after a move that     *)
(* leaves it none, that king is not in check.                              *)
(***************************************************************************)
C10_InCheckOnlyWhenResponding ==
    (moves # <<>> /\ ~game_over) =>
        /\ ~KingAttacked(boardOf(lastMove.boardType), lastMove.color)
        /\ is_responding_to_check_on_board = null =>
              ~KingAttacked(boardOf(active_board_phase), turn)
        /\ is_responding_to_check_on_board # null =>
              /\ is_responding_to_check_on_board = active_board_phase
              /\ KingAttacked(boardOf(active_board_phase), turn)

\* a quiet move has been played: the side to move is not in check on the phase board
C10_Witness ==
    /\ moves # <<>>
    /\ ~game_over
    /\ turn = Opponent(lastMove.color)
    /\ is_responding_to_check_on_board = null
    /\ ~KingAttacked(boardOf(active_board_phase), turn)

\* a checking move has been played: the side to move is in check on the phase board
C10_WitnessInCheck ==
    /\ moves # <<>>
    /\ ~game_over
    /\ turn = Opponent(lastMove.color)
    /\ is_responding_to_check_on_board = active_board_phase
    /\ KingAttacked(boardOf(active_board_phase), turn)

\* the squares of a board holding the king of a colour
KingsOn(board, color) ==
    {sq \in Squares : board[sq[1]][sq[2]] = PieceLetter[color]["K"]}

(***************************************************************************)
(* C11: after any sequence of accepted moves, capture-mirror and           *)
(* en-passant removals on the other board included, every board whose      *)
(* outcome is Active holds exactly one White king and exactly one Black     *)
(* king.                                                                   *)
(***************************************************************************)
C11_OneKingEach ==
    \A b \in Boards :
        outcomeOf(b) = "active" =>
            \A color \in Colors : Cardinality(KingsOn(boardOf(b), color)) = 1

\* C11 for the board of the move only: the side that has just moved still has
\* its king there
C11_MoverKeepsKing ==
    moves # <<>> =>
        Cardinality(KingsOn(boardOf(lastMove.boardType), lastMove.color)) = 1

\* the piece the move this step accepts takes off the board it is played on
capturedNow == CapturedPiece(boardOf(moved.boardType), moved.from, moved.to)

\* the squares of a board holding the piece string
Holding(board, piece) == {sq \in Squares : board[sq[1]][sq[2]] = piece}

(***************************************************************************)
(* C12: for every accepted move on Main that captures a piece with id i,   *)
(* the Secondary board afterwards holds no piece with id i, and every      *)
(* Secondary square that did not hold that piece is unchanged.             *)
(***************************************************************************)
C12_CaptureMirror ==
    [][(MoveAccepted /\ moved.boardType = "main" /\ capturedNow # null) =>
          /\ Holding(secondaryBoard', capturedNow) = {}
          /\ \A sq \in Squares \ Holding(secondaryBoard, capturedNow) :
                secondaryBoard'[sq[1]][sq[2]] = secondaryBoard[sq[1]][sq[2]]]_vars

\* C12 for pawns, whose ids P1..P8, p1..p8 are distinct on a board
C12_PawnCaptureMirror ==
    [][(/\ MoveAccepted /\ moved.boardType = "main" /\ capturedNow # null
        /\ getPieceInfo(capturedNow).type = "P") =>
          /\ Holding(secondaryBoard', capturedNow) = {}
          /\ \A sq \in Squares \ Holding(secondaryBoard, capturedNow) :
                secondaryBoard'[sq[1]][sq[2]] = secondaryBoard[sq[1]][sq[2]]]_vars

(***************************************************************************)
(* C13: an accepted move on Secondary that is not an en passant capture    *)
(* leaves every square of Main unchanged, captures included.               *)
(***************************************************************************)
C13_SecondaryLeavesMain ==
    [][(/\ MoveAccepted /\ moved.boardType = "secondary"
        /\ ~IsEnPassant(secondaryBoard, moved.from, moved.to)) =>
          mainBoard' = mainBoard]_vars

\* in the castling preset Black's rook has taken the rook on h1 of Secondary,
\* and Main, where White made the first move with its king, still holds its
\* rook on h1
C13_Witness ==
    /\ scenario = "castling" /\ Len(moves) = 2
    /\ moves[1].boardType = "main" /\ moves[1].piece = "K"
    /\ lastMove.boardType = "secondary" /\ lastMove.piece = "r"
    /\ lastMove.from = <<0, 7>> /\ lastMove.to = <<7, 7>>
    /\ secondaryBoard[7][7] = "r" /\ Holding(secondaryBoard, "R") = {}
    /\ mainBoard[7][7] = "R"

\* the pawn an en passant capture from -> to takes: it stands beside the
\* capturing pawn, on the file the capturing pawn moves to
PassedPawn(board, from, to) == board[from[1]][to[2]]

(***************************************************************************)
(* C14: an accepted en passant capture, on either board, removes the       *)
(* captured pawn from the board it is played on and the pawn with the same *)
(* id from the other board; an en passant capture on Secondary so removes  *)
(* the pawn from Main.                                                     *)
(***************************************************************************)
C14_EnPassantBothBoards ==
    [][(/\ MoveAccepted
        /\ IsEnPassant(boardOf(moved.boardType), moved.from, moved.to)) =>
          \E pawn \in {PassedPawn(boardOf(moved.boardType), moved.from, moved.to)} :
              /\ getPieceInfo(pawn).type = "P"
              /\ getPieceInfo(pawn).color = Opponent(moved.color)
              /\ Holding(mainBoard', pawn) = {}
              /\ Holding(secondaryBoard', pawn) = {}]_vars

\* in the en passant preset Black's d-pawn has made its double push on
\* Secondary and White's e-pawn has taken it in passing there: p4 is gone
\* from both boards, Main's d7 included
C14_Witness ==
    /\ scenario = "en_passant" /\ Len(moves) = 3
    /\ moves[2].boardType = "secondary" /\ moves[2].piece = "p4"
    /\ moves[2].from = <<1, 3>> /\ moves[2].to = <<3, 3>>
    /\ lastMove.boardType = "secondary" /\ lastMove.piece = "P5"
    /\ lastMove.from = <<3, 4>> /\ lastMove.to = <<2, 3>>
    /\ secondaryBoard[2][3] = "P5"
    /\ Holding(secondaryBoard, "p4") = {} /\ Holding(mainBoard, "p4") = {}

\* an en passant capture on Main: in the stalemate preset a pawn has taken in
\* passing on Main
C14_WitnessMain ==
    /\ moves # <<>> /\ lastMove.boardType = "main"
    /\ getPieceInfo(lastMove.piece).type = "P"
    /\ lastMove.from[2] # lastMove.to[2]
    /\ Len(moves) >= 2 /\ moves[Len(moves) - 1].boardType = "main"
    /\ getPieceInfo(moves[Len(moves) - 1].piece).type = "P"
    /\ moves[Len(moves) - 1].to = <<lastMove.from[1], lastMove.to[2]>>
    /\ Dist(moves[Len(moves) - 1].to[1] - moves[Len(moves) - 1].from[1]) = 2
    /\ mainBoard[lastMove.from[1]][lastMove.to[2]] = null

\* the move this step accepts is a two-step pawn push
pushedTwoNow == IsDoublePush(boardOf(moved.boardType), moved.from, moved.to)

(***************************************************************************)
(* C15: an en_passant_target is set after an accepted move if and only if  *)
(* that move was a two-step pawn push, so that the very next accepted ply  *)
(* clears a target whether or not it was used and no target stays set for  *)
(* two plies running from one push.                                        *)
(***************************************************************************)
C15_SetIffDoublePush ==
    [][MoveAccepted =>
          \A b \in Boards :
              en_passant_target'[b] # noSquare <=> (b = moved.boardType /\ pushedTwoNow)]_vars

\* C15 read board by board: the played board's target is set if and only if
\* the move was a two-step pawn push, and the other board's target is kept
C15_PlayedBoardOnly ==
    [][MoveAccepted =>
          /\ en_passant_target'[moved.boardType] # noSquare <=> pushedTwoNow
          /\ en_passant_target'[otherBoardName(moved.boardType)]
                = en_passant_target[otherBoardName(moved.boardType)]]_vars

\* a target outlives the ply after its push: the last accepted move was on
\* the other board and the target is still set
C15_StaleTarget ==
    \E b \in Boards :
        /\ moves # <<>> /\ lastMove.boardType # b
        /\ en_passant_target[b] # noSquare

\* the side has castled in this game
HasCastled(color) ==
    \E i \in 1..Len(moves) :
        /\ moves[i].color = color
        /\ getPieceInfo(moves[i].piece).type = "K"
        /\ Dist(moves[i].to[2] - moves[i].from[2]) = 2

\* the king's home square and its two castling targets
kingHome(color) == <<homeRank(color), 4>>
castlingTargets(color) == {<<homeRank(color), 6>>, <<homeRank(color), 2>>}

\* a side that has castled has no right left on either board, every castling
\* move it submits is turned away, and the client offers it none
CastledSidesBarred ==
    \A color \in Colors : HasCastled(color) =>
        \A b \in Boards :
            /\ ~castling_rights[b][color].K /\ ~castling_rights[b][color].Q
            /\ CastlingMoves(boardOf(b), kingHome(color), color, castling_rights[b]) = {}
            /\ \A to \in castlingTargets(color) :
                  Response(color, b, kingHome(color), to, null).result = "illegal"
            /\ getCastlingOptions(boardOf(b), homeRank(color), 4, color,
                                  castling_rights[b][color]) = {}

\* no accepted move sets a right that was cleared
RightsOnlyCleared ==
    \A b \in Boards, color \in Colors :
        /\ castling_rights'[b][color].K => castling_rights[b][color].K
        /\ castling_rights'[b][color].Q => castling_rights[b][color].Q

(***************************************************************************)
(* C16: a side castles at most once per game: once it has castled on       *)
(* either board its K and Q rights are false on both boards, every castling*)
(* move it submits afterwards is rejected, and within a game a cleared     *)
(* right is never set again.                                               *)
(***************************************************************************)
C16_CastlingOnce ==
    [][MoveAccepted => (RightsOnlyCleared /\ CastledSidesBarred')]_vars

\* in the castling preset White has castled on Main and Black has answered
\* the check there; on Secondary White's king and rook stand on e1 and h1
\* with f1 and g1 empty, its rights there are gone and O-O is turned away
C16_Witness ==
    /\ scenario = "castling" /\ Len(moves) = 2 /\ HasCastled("White")
    /\ moves[1].boardType = "main" /\ moves[1].to = <<7, 6>>
    /\ turn = "White" /\ active_board_phase = "secondary" /\ ~game_over
    /\ secondaryBoard[7][4] = "K" /\ secondaryBoard[7][7] = "R"
    /\ secondaryBoard[7][5] = null /\ secondaryBoard[7][6] = null
    /\ ~isKingInCheck(secondaryBoard, "White")
    /\ ~castling_rights["secondary"]["White"].K
    /\ Response("White", "secondary", <<7, 4>>, <<7, 6>>, null).reason = "PathBlocked"

\* a piece of the other colour attacks the square
AttackedBy(board, sq, color) ==
    \E a \in Squares :
        /\ getPieceInfo(board[a[1]][a[2]]).color = color
        /\ Attacks(board, a, sq)

\* the conditions of castling, for the king of the colour on its home square:
\* the right, an own rook on the corner, the squares between empty, the king
\* not in check and neither crossing nor reaching an attacked square
CastlingSound(board, color, type, rights) ==
    LET home == homeRank(color)
        rookCol == IF type = "kingside" THEN 7 ELSE 0
        between == IF type = "kingside" THEN {5, 6} ELSE {1, 2, 3}
        kingPath == IF type = "kingside" THEN {5, 6} ELSE {3, 2}
    IN
    /\ IF type = "kingside" THEN rights.K ELSE rights.Q
    /\ board[home][4] = PieceLetter[color]["K"]
    /\ board[home][rookCol] = PieceLetter[color]["R"]
    /\ \A c \in between : board[home][c] = null
    /\ ~KingAttacked(board, color)
    /\ \A c \in kingPath : ~AttackedBy(board, <<home, c>>, Opponent(color))

(***************************************************************************)
(* C17: castling, kingside or queenside, is offered to a side on a board   *)
(* only when the side still has the right, its own rook stands on the      *)
(* corner, the squares between king and rook are empty, and the king is    *)
(* not in check and neither passes through nor lands on an attacked square.*)
(***************************************************************************)
C17_OfferedOnlyWhenSound ==
    ~game_over =>
        \A o \in castlingOpts(active_board_phase, homeRank(turn), 4) :
            CastlingSound(boardOf(active_board_phase), turn, o.type,
                          castling_rights[active_board_phase][turn])

\* C17 for the castling moves legal_moves appends
C17_LegalOnlyWhenSound ==
    \A b \in Boards, color \in Colors :
        \A to \in CastlingMoves(boardOf(b), kingHome(color), color, castling_rights[b]) :
            CastlingSound(boardOf(b), color,
                          IF to[2] = 6 THEN "kingside" ELSE "queenside",
                          castling_rights[b][color])

\* a castling the client offers and the rules forbid: it is turned away when
\* it is submitted
C17_OfferedAndRejected ==
    /\ ~game_over
    /\ \E o \in castlingOpts(active_board_phase, homeRank(turn), 4) :
          Response(turn, active_board_phase, kingHome(turn),
                   <<homeRank(turn), IF o.type = "kingside" THEN 6 ELSE 2>>,
                   null).result = "illegal"

\* the pawns of the side to move on the board in play
pawnsToMove ==
    {from \in Squares :
        /\ getPieceInfo(boardOf(active_board_phase)[from[1]][from[2]]).type = "P"
        /\ getPieceInfo(boardOf(active_board_phase)[from[1]][from[2]]).color = turn}

\* the legal moves of a pawn of the side to move that reach its last rank
promotionsOf(from) ==
    {to \in legal_moves(boardOf(active_board_phase), from, turn,
                        castling_rights[active_board_phase],
                        en_passant_target[active_board_phase]) :
        IsPromotion(boardOf(active_board_phase), from, to)}

\* the squares the client highlights for the piece on `from`
possibleMovesOf(from) ==
    getValidMoves(boardOf(active_board_phase),
                  boardOf(active_board_phase)[from[1]][from[2]], from[1], from[2], turn)

\* submitted without a choice, or with a king for a choice, a promotion is
\* turned away with PromotionRequired; with a choice of the modal it is accepted
PromotionNeedsChoice ==
    GateReason(turn, active_board_phase) = null =>
        \A from \in pawnsToMove : \A to \in promotionsOf(from) :
            /\ Response(turn, active_board_phase, from, to, null).result = "illegal"
            /\ Response(turn, active_board_phase, from, to, null).reason = "PromotionRequired"
            /\ Response(turn, active_board_phase, from, to, "K").reason = "PromotionRequired"
            /\ \A choice \in promotionChoices :
                  Response(turn, active_board_phase, from, to,
                           handlePromotionChoice([from |-> from, to |-> to], choice).promotion
                          ).result = "ok"

\* the client emits no move of a pawn to its last rank from the second tap,
\* and opens the modal for each that is legal
ClientAsksFirst ==
    \A from \in pawnsToMove : \E possibleMoves \in {possibleMovesOf(from)} :
        /\ \A to \in Squares :
              \A m \in secondTap(boardOf(active_board_phase), from, to, possibleMoves,
                                 en_passant_target[active_board_phase]) :
                  ~IsPromotion(boardOf(active_board_phase), m.from, m.to)
        /\ \A to \in promotionsOf(from) :
              opensPromotionModal(boardOf(active_board_phase), from, to, possibleMoves)

\* the pawn of an accepted promotion has become a queen, rook, bishop or
\* knight of its colour
PromotedToChoice ==
    (MoveAccepted /\ IsPromotion(boardOf(moved.boardType), moved.from, moved.to)) =>
        \E choice \in PromotionChoices :
            BoardAfter(moved.boardType)[moved.to[1]][moved.to[2]]
                = PromotedPiece(moved.piece, choice)

(***************************************************************************)
(* C18: a pawn move to its last rank is accepted only with a promotion     *)
(* choice among Q, R, B, N; without one it is rejected with                *)
(* PromotionRequired, the state unchanged, never defaulted to a queen; and *)
(* the client submits such a move only once the player has chosen.         *)
(***************************************************************************)
C18_PromotionRequired ==
    /\ [](PromotionNeedsChoice /\ ClientAsksFirst)
    /\ [][PromotedToChoice]_vars

\* a pawn of the side to move can reach its last rank: submitted bare the
\* move is answered PromotionRequired, and the second tap opens the modal
C18_Witness ==
    /\ GateReason(turn, active_board_phase) = null
    /\ \E from \in pawnsToMove : \E to \in promotionsOf(from) :
          /\ Response(turn, active_board_phase, from, to, null).reason = "PromotionRequired"
          /\ opensPromotionModal(boardOf(active_board_phase), from, to, possibleMovesOf(from))

\* a pawn has been promoted to a knight
C18_WitnessPromoted ==
    /\ moves # <<>>
    /\ getPieceInfo(lastMove.piece).type = "P"
    /\ lastMove.to[1] = (IF lastMove.color = "White" THEN 0 ELSE 7)
    /\ getPieceInfo(boardOf(lastMove.boardType)[lastMove.to[1]][lastMove.to[2]]).type = "N"

\* what each move handler sends for the move from -> to of the colour on the
\* board: the `move` handler's reply and the `makeMove` handler's relay
MoveEmissions(color, boardType, from, to) ==
    {[event |-> MoveReply(color, boardType, from, to, null).event,
      audience |-> MoveReply(color, boardType, from, to, null).audience],
     [event |-> makeMove([gameId |-> "room", move |-> [from |-> from, to |-> to]]).event,
      audience |-> makeMove([gameId |-> "room", move |-> [from |-> from, to |-> to]]).audience]}

\* the moves among SampleMoves that are not validated and accepted
RejectedSamples ==
    {x \in Colors \X Boards \X SampleMoves :
        Response(x[1], x[2], x[3][1], x[3][2], null).result = "illegal"}

(***************************************************************************)
(* C19: a rejected move leaves the whole Game unchanged and produces a     *)
(* move_error delivered to the submitting client only; nothing is          *)
(* broadcast to the room for a move that was not validated and accepted.   *)
(***************************************************************************)
C19_RejectedOnlyMoveError ==
    \A x \in RejectedSamples :
        \A e \in MoveEmissions(x[1], x[2], x[3][1], x[3][2]) :
            e.event = "move_error" /\ e.audience = "sender"

\* C19 for the `move` handler alone: the reply to a rejected move is a
\* move_error to its sender, and a step that appends no move and installs no
\* preset changes nothing of the Game
C19_MoveHandlerRejects ==
    /\ [](\A x \in RejectedSamples :
            MoveReply(x[1], x[2], x[3][1], x[3][2], null)
                = [event |-> "move_error", audience |-> "sender"])
    /\ [][(moves' = moves /\ scenario' = scenario) =>
            UNCHANGED <<mainBoard, secondaryBoard, turn, active_board_phase,
                        is_responding_to_check_on_board, main_board_outcome,
                        secondary_board_outcome, game_over, winner, castling_rights,
                        en_passant_target>>]_vars

\* this step re-initializes a game that had been played, set up or voted on
IsReset ==
    /\ scenario' = null /\ moves' = <<>> /\ reset_votes' = noVotes
    /\ mainBoard' = createInitialBoard /\ secondaryBoard' = createInitialBoard
    /\ (moves # <<>> \/ scenario # null \/ reset_votes # noVotes)

\* a reset action of the player of the colour: "Reset Both Boards" or
\* "Play Again"
ResetActionBy(color) == VoteReset(color) \/ PlayAgain(color)

\* what a reset action of a colour does: with the other colour's vote standing
\* it re-initializes the game, otherwise it sets its own vote and nothing else
VoteCounts(color) ==
    ResetActionBy(color) =>
        IF reset_votes[Opponent(color)]
        THEN /\ mainBoard' = createInitialBoard /\ secondaryBoard' = createInitialBoard
             /\ turn' = "White" /\ moves' = <<>> /\ reset_votes' = noVotes
        ELSE /\ reset_votes' = [reset_votes EXCEPT ![color] = TRUE]
             /\ ~reset_votes'[Opponent(color)]
             /\ UNCHANGED <<mainBoard, secondaryBoard, turn, active_board_phase, moves>>

(***************************************************************************)
(* C20 as stated: in a two-player room a reset needs both colours' votes   *)
(* and no single client action resets the game: a game is re-initialized   *)
(* only by the vote of a colour while the other colour's vote stands.      *)
(***************************************************************************)
C20_ResetOnlyByTwoVotes ==
    [][IsReset => \E color \in Colors : reset_votes[Opponent(color)]]_vars

(***************************************************************************)
(* C20 amended: a first vote, by "Reset Both Boards" or "Play Again", sets *)
(* only the voter's flag and leaves boards, turn and moves unchanged; the  *)
(* other colour's vote then re-initializes the game in one step (fresh     *)
(* boards, no moves, both votes false); and a game is re-initialized only  *)
(* so or by the legacy finish_game event.                                  *)
(***************************************************************************)
C20_TwoVotesOrFinish ==
    [][/\ \A color \in Colors : VoteCounts(color)
       /\ IsReset => (FinishGame \/ \E color \in Colors : reset_votes[Opponent(color)])]_vars

\* White alone has voted in a game with a move played: the game goes on
C20_Witness ==
    /\ reset_votes = [White |-> TRUE, Black |-> FALSE]
    /\ moves # <<>>
    /\ mainBoard # createInitialBoard

\* "Play Again" pressed by one colour after the game has ended: its vote
\* stands and the finished game is still there
C20_WitnessPlayAgain ==
    /\ game_over /\ moves # <<>>
    /\ \E color \in Colors : reset_votes[color] /\ ~reset_votes[Opponent(color)]

\* the kinds of the pieces of a back rank, from the a-file to the h-file
BackRank == <<"R", "N", "B", "Q", "K", "B", "N", "R">>

\* the standard start position: Black's pieces on row 0 and its pawns on
\* row 1, White's pawns on row 6 and its pieces on row 7, pawn k on file k
StandardStart(board) ==
    \A r \in Rows, c \in Cols :
        board[r][c] =
            CASE r = 0 -> PieceLetter["Black"][BackRank[c + 1]]
              [] r = 1 -> PieceLetter["Black"]["P"] \o PawnNumbers[c + 1]
              [] r = 6 -> PieceLetter["White"]["P"] \o PawnNumbers[c + 1]
              [] r = 7 -> PieceLetter["White"][BackRank[c + 1]]
              [] OTHER -> null

\* the Game is the initial one
FreshGame ==
    /\ StandardStart(mainBoard) /\ StandardStart(secondaryBoard)
    /\ turn = "White" /\ active_board_phase = "main"
    /\ moves = <<>>
    /\ \A color \in Colors : ~reset_votes[color]
    /\ main_board_outcome = "active" /\ secondary_board_outcome = "active"
    /\ ~game_over /\ winner = null
    /\ is_responding_to_check_on_board = null
    /\ \A b \in Boards : en_passant_target[b] = noSquare
    /\ \A b \in Boards, color \in Colors :
          castling_rights[b][color].K /\ castling_rights[b][color].Q

\* this step is a reset: a colour's reset action with the other colour's vote
\* standing, or the reset of a local game
ResetStep ==
    \/ \E color \in Colors : reset_votes[Opponent(color)] /\ ResetActionBy(color)
    \/ OnReset(null, resetBoard)

(***************************************************************************)
(* C21: after a reset, by the second of two votes or in a local game, from *)
(* any reachable state, the Game is the initial one: the standard start    *)
(* position on both boards, White to move on Main, no moves, no votes,     *)
(* both outcomes active, no game over, no winner, no check to answer, no   *)
(* en passant target and full castling rights; a reset of the state a      *)
(* reset gives so gives that state again.                                  *)
(***************************************************************************)
C21_ResetGivesInitialState ==
    /\ Init => FreshGame
    /\ [][ResetStep => (FreshGame' /\ Init')]_vars

\* a finished game that was set up and played, with Black's vote standing:
\* White's vote resets it
C21_Witness ==
    /\ game_over /\ scenario # null /\ moves # <<>>
    /\ reset_votes = [White |-> FALSE, Black |-> TRUE]
    /\ ~StandardStart(mainBoard)

(***************************************************************************)
(* The lobby server.                                                       *)
(***************************************************************************)
\* the players of the room's lobby, none when the room has no lobby
playersOf(room) == IF room \in DOMAIN lobbies THEN lobbies[room].players ELSE <<>>

(* C22: a room seats two players, the first joiner (White) and the second  *)
(* (Black); a third joiner is left out of the seats, so that the roster of *)
(* a room never holds more than two players.                               *)
C22_AtMostTwoSeated == \A room \in RoomIds : Len(playersOf(room)) <= 2

\* three players on the roster of one room
C22_ThirdPlayerSeated == \E room \in RoomIds : Len(playersOf(room)) = 3

\* the step is a create_lobby for the room with the privacy flag
CreatesLobby(room, isPrivate) ==
    \E s \in Sockets : CreateLobby(s, room, clientNames[s], isPrivate)

\* the room ids of a lobby list
listed(list) == {lobby.roomId : lobby \in list}

(* C23: the lobby list sent in reply to get_lobbies holds no private       *)
(* lobby: a room whose lobby was created private is not on the list, from  *)
(* its creation on, and the privacy flag of a lobby is set by create_lobby *)
(* only.                                                                   *)
C23_PrivateNeverListed ==
    /\ [](\A room \in DOMAIN lobbies :
              lobbies[room].isPrivate => room \notin listed(lobby_list))
    /\ [][\A room \in RoomIds :
              /\ CreatesLobby(room, TRUE) => room \notin listed(lobby_list')
              /\ (/\ room \in DOMAIN lobbies /\ room \in DOMAIN lobbies'
                  /\ lobbies'[room].isPrivate # lobbies[room].isPrivate)
                     => CreatesLobby(room, lobbies'[room].isPrivate)]_vars

\* a private lobby that a second player has joined, and an empty lobby list
C23_Witness ==
    /\ \E room \in DOMAIN lobbies : lobbies[room].isPrivate /\ Len(lobbies[room].players) = 2
    /\ lobby_list = {}

(* C24: the lobby list holds open rooms only: a room with two players is   *)
(* full and is not on the list.                                            *)
C24_FullNeverListed == \A lobby \in lobby_list : Len(lobby.players) < 2

\* a public lobby with two players is on the list
C24_FullRoomListed ==
    \E lobby \in lobby_list : ~lobby.isPrivate /\ Len(lobby.players) = 2

(* C25: create_lobby for a room id that has a lobby is an error: the       *)
(* lobby's host, privacy flag, creation time and players stay as they are. *)
C25_ExistingLobbyKept ==
    [][\A room \in DOMAIN lobbies, isPrivate \in BOOLEAN :
           CreatesLobby(room, isPrivate) => lobbies'[room] = lobbies[room]]_vars

(* C26: a lobby is removed when its last member leaves or disconnects:     *)
(* once every socket that created or joined a room has disconnected, the   *)
(* room is in the registry no more; so with no socket connected the        *)
(* registry, and with it the lobby list, is empty.                         *)
C26_NoSocketNoLobby ==
    (\A s \in Sockets : ~connected(s)) => (DOMAIN lobbies = {} /\ lobby_list = {})

\* a public lobby outlives every socket: it is listed with no socket connected
C26_OrphanListed ==
    /\ \A s \in Sockets : sockets[s].status = "disconnected"
    /\ lobby_list # {}

(* C27: lobbies expire on inactivity, not on age: a run of the cleanup     *)
(* timer does not remove a lobby that was created or joined within the     *)
(* last LOBBY_TIMEOUT minutes.                                             *)
C27_ActiveLobbyKept ==
    [][now' # now =>
           \A room \in DOMAIN lobbies :
               now' - lastActivity[room] <= LOBBY_TIMEOUT => room \in DOMAIN lobbies']_vars

(***************************************************************************)
(* One room under concurrent requests.                                     *)
(***************************************************************************)
\* the game_update events sent to a member so far, in send order
updatesTo(member) == received[member] \o queue[member]

withBoard(e, board) == [e EXCEPT !.board = board]

\* the makeMove event a client would send for the move of the event
relayed(e) == [gameId |-> "room", move |-> [from |-> e.from, to |-> e.to], board |-> e.board]

squaresOf(board, id) ==
    {sq \in Squares : board[sq[1]][sq[2]] # null /\ getPieceInfo(board[sq[1]][sq[2]]).id = id}

\* the ids on the board
idsOn(board) ==
    {getPieceInfo(board[sq[1]][sq[2]]).id : sq \in {s \in Squares : board[s[1]][s[2]] # null}}

(* C30: piece ids are unique within a colour within a board in every       *)
(* reachable state: no two squares of a board hold pieces with the same    *)
(* id, so that the capture mirror removes at most one piece.               *)
C30_IdsUnique ==
    \A boardType \in Boards : \A id \in idsOn(boardOf(boardType)) :
        Cardinality(squaresOf(boardOf(boardType), id)) = 1

\* the ids of pawns, and of the pieces pawns were promoted to, are unique
C30_NumberedIdsUnique ==
    \A boardType \in Boards : \A id \in idsOn(boardOf(boardType)) :
        Len(id) = 2 => Cardinality(squaresOf(boardOf(boardType), id)) = 1

\* after a promotion on the Main board, which holds a promoted piece
C30_PromotedOnMain ==
    /\ moves # <<>>
    /\ \E id \in idsOn(mainBoard) : Len(id) = 2 /\ getPieceInfo(id).type \notin {"P"}

(***************************************************************************)
(* Classification of a side on a board.                                    *)
(***************************************************************************)
\* the side has a move of one of its pieces after which its king is not
\* attacked
CanEscape(board, side) ==
    \E from \in Squares :
        /\ getPieceInfo(board[from[1]][from[2]]).color = side
        /\ \E to \in pseudoLegalMoves(board, getPieceInfo(board[from[1]][from[2]]),
                                      from[1], from[2]) :
               ~KingAttacked(tempBoard(board, board[from[1]][from[2]], from[1], from[2], to),
                             side)

C31_WitnessStalemate ==
    /\ moves # <<>>
    /\ isStalemate(secondaryBoard, "Black")
    /\ ~KingAttacked(secondaryBoard, "Black")

(***************************************************************************)
(* The snapshot as the client declares and loads it.                       *)
(***************************************************************************)
\* GameStateData: the fields of a snapshot.  castling_rights is one
\* {White: {K, Q}, Black: {K, Q}} value, which the client reads as
\* castlingRights[turn]; of the Game's two boards it carries the rights of
\* one, sent.  en_passant_target is read as enPassantTarget[phase], one
\* square for each board.  The type has no reset_votes field.
GameStateData(game, sent) ==
    [mainBoard |-> game.mainBoard, secondaryBoard |-> game.secondaryBoard,
     turn |-> game.turn, active_board_phase |-> game.active_board_phase,
     moves |-> game.moves, winner |-> game.winner,
     main_board_outcome |-> game.main_board_outcome,
     secondary_board_outcome |-> game.secondary_board_outcome,
     game_over |-> game.game_over,
     is_responding_to_check_on_board |-> game.is_responding_to_check_on_board,
     en_passant_target |-> game.en_passant_target,
     castling_rights |-> game.castling_rights[sent]]

\* the game_state handler: the Game the client holds after loading a
\* snapshot; the one castlingRights value serves both boards
handleGameState(data) ==
    [mainBoard |-> data.mainBoard, secondaryBoard |-> data.secondaryBoard,
     turn |-> data.turn, active_board_phase |-> data.active_board_phase,
     moves |-> data.moves, winner |-> data.winner,
     game_over |-> data.game_over,
     main_board_outcome |-> data.main_board_outcome,
     secondary_board_outcome |-> data.secondary_board_outcome,
     is_responding_to_check_on_board |-> data.is_responding_to_check_on_board,
     en_passant_target |-> data.en_passant_target,
     castling_rights |-> [boardType \in Boards |-> data.castling_rights]]

\* the Game without its reset votes, which travel in reset_votes_update
GameSent ==
    [field \in DOMAIN Snapshot \ {"reset_votes"} |-> Snapshot[field]]

(* C32: in every reachable state, serializing the Game to the snapshot     *)
(* shape and loading it back yields the same Game, the castling rights and *)
(* the en_passant_target of each board included.                           *)
C32_RoundTrip ==
    \E sent \in Boards : handleGameState(GameStateData(Snapshot, sent)) = GameSent

\* the two boards hold different castling rights
C32_RightsDiffer ==
    /\ castling_rights["main"] # castling_rights["secondary"]
    /\ \A sent \in Boards : handleGameState(GameStateData(Snapshot, sent)) # GameSent

\* whenever the two boards hold the same rights the round trip is exact,
\* each board's en_passant_target included
C32_RoundTripEqualRights ==
    castling_rights["main"] = castling_rights["secondary"]
        => \A sent \in Boards : handleGameState(GameStateData(Snapshot, sent)) = GameSent

(***************************************************************************)
(* The pawn move generator.                                                *)
(***************************************************************************)
\* the squares a pawn of `color` on (row, col) may go to, stated square by
\* square; withTarget tells whether the diagonal step to ep counts
PawnSquares(board, color, row, col, ep, withTarget) ==
    {sq \in Squares :
        /\ sq[1] = row + pawnDirection(color)
        /\ \/ sq[2] = col /\ board[sq[1]][sq[2]] = null
           \/ /\ sq[2] \in {col - 1, col + 1}
              /\ \/ /\ board[sq[1]][sq[2]] # null
                    /\ getPieceInfo(board[sq[1]][sq[2]]).color = Opponent(color)
                 \/ withTarget /\ sq = ep}
    \cup
    {sq \in Squares :
        /\ row = (IF color = "White" THEN 6 ELSE 1)
        /\ sq = <<row + 2 * pawnDirection(color), col>>
        /\ board[row + pawnDirection(color)][col] = null
        /\ board[sq[1]][sq[2]] = null}

\* the pawns on a board
PawnsOn(board) ==
    {sq \in Squares : board[sq[1]][sq[2]] # null
                      /\ getPieceInfo(board[sq[1]][sq[2]]).type = "P"}

(* C33: for every pawn of the side to move, on either board, getPawnMoves  *)
(* returns the square one step forward if empty, the square two steps      *)
(* forward from the starting rank if it and the square between are empty,  *)
(* each forward diagonal holding an opposing piece, the forward diagonal   *)
(* equal to the board's en_passant_target when set, and no other square.   *)
C33_PawnMoves ==
    \A boardType \in Boards : \A sq \in PawnsOn(boardOf(boardType)) :
        \E pawnInfo \in {getPieceInfo(boardOf(boardType)[sq[1]][sq[2]])} :
            pawnInfo.color = turn =>
            getPawnMoves(boardOf(boardType), pawnInfo, sq[1], sq[2])
                = PawnSquares(boardOf(boardType), pawnInfo.color, sq[1], sq[2],
                              en_passant_target[boardType], TRUE)

\* the same without the step to the en_passant_target: the pushes and the
\* captures of standing pieces are as stated
C33_PawnMovesNoEnPassant ==
    \A boardType \in Boards : \A sq \in PawnsOn(boardOf(boardType)) :
        \E pawnInfo \in {getPieceInfo(boardOf(boardType)[sq[1]][sq[2]])} :
            getPawnMoves(boardOf(boardType), pawnInfo, sq[1], sq[2])
                = PawnSquares(boardOf(boardType), pawnInfo.color, sq[1], sq[2],
                              en_passant_target[boardType], FALSE)

\* a pawn of the side to move stands with the en_passant_target of the
\* board in play on its forward diagonal, and the generator leaves it out
C33_EnPassantOpen ==
    /\ ~game_over
    /\ en_passant_target[active_board_phase] # noSquare
    /\ \E sq \in PawnsOn(boardOf(active_board_phase)) :
          /\ getPieceInfo(boardOf(active_board_phase)[sq[1]][sq[2]]).color = turn
          /\ en_passant_target[active_board_phase][1] = sq[1] + pawnDirection(turn)
          /\ en_passant_target[active_board_phase][2] \in {sq[2] - 1, sq[2] + 1}
          /\ en_passant_target[active_board_phase]
                \notin getValidMoves(boardOf(active_board_phase),
                                     boardOf(active_board_phase)[sq[1]][sq[2]],
                                     sq[1], sq[2], turn)
          /\ en_passant_target[active_board_phase]
                \in legal_moves(boardOf(active_board_phase), sq, turn,
                                castling_rights[active_board_phase],
                                en_passant_target[active_board_phase])

(***************************************************************************)
(* The game client: the Gameboard component.  Its copies of turn,          *)
(* serverActiveBoardPhase, gameFinished, the two board outcomes and        *)
(* respondingToCheckBoard are the fields of the last snapshot it handled,  *)
(* held in turn, active_board_phase, game_over, main_board_outcome,        *)
(* secondary_board_outcome and is_responding_to_check_on_board.  What      *)
(* stands on a tapped square is an input of the tap.  An action is a       *)
(* handler together with the render it causes: the cleanups of the effects *)
(* whose dependencies changed, then the effects.                           *)
(***************************************************************************)
\* the outcomes of a board in the snapshots explored: not decided, or decided
SnapshotOutcomes == {"active", "draw_stalemate"}

\* the colours the Gameboard is mounted with: a local game, and a
\* multiplayer game played as Black
PlayerColors == {null, "Black"}

\* the fields of a snapshot the client's gating and board sync read, for the
\* snapshots the coordinator sends
Snapshots ==
    {data \in [turn : Colors, active_board_phase : Boards, game_over : BOOLEAN,
               main_board_outcome : SnapshotOutcomes,
               secondary_board_outcome : SnapshotOutcomes,
               is_responding_to_check_on_board : Boards \cup {null}] :
        /\ data.is_responding_to_check_on_board # null
              => /\ data.active_board_phase = data.is_responding_to_check_on_board
                 /\ ~data.game_over
        /\ ~data.game_over
              => (IF data.active_board_phase = "main" THEN data.main_board_outcome
                  ELSE data.secondary_board_outcome) = "active"
        /\ (data.main_board_outcome # "active" /\ data.secondary_board_outcome # "active")
              => data.game_over}

\* the snapshot of game_reset: the game as first set up
resetSnapshot ==
    [turn |-> "White", active_board_phase |-> "main", game_over |-> FALSE,
     main_board_outcome |-> "active", secondary_board_outcome |-> "active",
     is_responding_to_check_on_board |-> null]

\* the snapshot held by the client
held ==
    [turn |-> turn, active_board_phase |-> active_board_phase, game_over |-> game_over,
     main_board_outcome |-> main_board_outcome,
     secondary_board_outcome |-> secondary_board_outcome,
     is_responding_to_check_on_board |-> is_responding_to_check_on_board]

\* the snapshots the coordinator can send next: that of a preset installed,
\* or while the game is on that of a move, which passes the turn, or of the
\* game being finished; a board once decided stays as it is
follows(data) ==
    \/ data = resetSnapshot
    \/ /\ ~game_over
       /\ data.turn # turn \/ data.game_over
       /\ main_board_outcome # "active" => data.main_board_outcome = main_board_outcome
       /\ secondary_board_outcome # "active"
             => data.secondary_board_outcome = secondary_board_outcome

\* clearTimeout: a timer yet to fire will not fire; the ref keeps its id
clearTimeout(ref) == IF ref.current = "pending" THEN staleTimeout ELSE ref

clearManualTimeout(ref) == IF ref = "pending" THEN "stale" ELSE ref

\* the state the effects and their cleanups read
view ==
    [activeBoard |-> activeBoard, isManualBoardSwitch |-> isManualBoardSwitch,
     boardSwapTimeoutRef |-> boardSwapTimeoutRef,
     manualSwitchTimeoutRef |-> manualSwitchTimeoutRef,
     serverActiveBoardPhase |-> active_board_phase,
     respondingToCheckBoard |-> is_responding_to_check_on_board,
     showPromotionModal |-> pendingPromotion # null,
     synced |-> FALSE]

\* the sync effect sets activeBoard to the server's phase
syncEffect(v) ==
    /\ v.activeBoard # v.serverActiveBoardPhase
    /\ v.boardSwapTimeoutRef.current = "null"
    /\ ~v.isManualBoardSwitch

\* the render after a handler took the state from prev to next.  With a
\* socket, the cleanup of the game-state effect (dependencies activeBoard and
\* isManualBoardSwitch) clears both timers and that of the move-complete
\* effect (dependency respondingToCheckBoard) clears the swap timer; the
\* cleanup of the key listener (dependency showPromotionModal) clears the
\* manual-switch timer.  Then the sync effect runs, and its setActiveBoard
\* brings the cleanup of the game-state effect once more.
commit(prev, next, hasSocket) ==
    LET gameStateDeps == \/ prev.activeBoard # next.activeBoard
                         \/ prev.isManualBoardSwitch # next.isManualBoardSwitch
        moveCompleteDeps == prev.respondingToCheckBoard # next.respondingToCheckBoard
        keyDeps == prev.showPromotionModal # next.showPromotionModal
        syncDeps == gameStateDeps \/ prev.serverActiveBoardPhase # next.serverActiveBoardPhase
        cleaned ==
            [next EXCEPT
                !.boardSwapTimeoutRef =
                    IF hasSocket /\ (gameStateDeps \/ moveCompleteDeps)
                    THEN clearTimeout(@) ELSE @,
                !.manualSwitchTimeoutRef =
                    IF (hasSocket /\ gameStateDeps) \/ keyDeps
                    THEN clearManualTimeout(@) ELSE @]
    IN
    IF syncDeps /\ syncEffect(cleaned)
    THEN [cleaned EXCEPT
             !.activeBoard = cleaned.serverActiveBoardPhase,
             !.manualSwitchTimeoutRef = IF hasSocket THEN clearManualTimeout(@) ELSE @,
             !.synced = TRUE]
    ELSE cleaned

\* the state of the board sync after a render
setView(v) ==
    /\ activeBoard' = v.activeBoard
    /\ isManualBoardSwitch' = v.isManualBoardSwitch
    /\ boardSwapTimeoutRef' = v.boardSwapTimeoutRef
    /\ manualSwitchTimeoutRef' = v.manualSwitchTimeoutRef

\* the fields a snapshot handler copies
setSnapshot(data) ==
    /\ turn' = data.turn
    /\ active_board_phase' = data.active_board_phase
    /\ game_over' = data.game_over
    /\ main_board_outcome' = data.main_board_outcome
    /\ secondary_board_outcome' = data.secondary_board_outcome
    /\ is_responding_to_check_on_board' = data.is_responding_to_check_on_board
    /\ UNCHANGED <<mainBoard, secondaryBoard, winner, castling_rights,
                   en_passant_target, moves, reset_votes, scenario>>
    /\ UNCHANGED <<lobbyVars, roomVars>>

\* the Gameboard is mounted with its props
Mount(color, hasSocket) ==
    /\ lastEvent = "none"
    /\ socket' = hasSocket
    /\ playerColor' = color
    /\ lastEvent' = "other"
    /\ UNCHANGED <<activeBoard, isManualBoardSwitch, boardSwapTimeoutRef,
                   manualSwitchTimeoutRef, selectedPieceSquare, castlingCandidate,
                   pendingPromotion, emitted>>
    /\ UNCHANGED <<gameVars, lobbyVars, roomVars>>

\* handleGameState: with another board shown and no manual switch, a timer
\* is set that shows the board of the phase after 0.8 s
swapToPhase(ref, currentPhase) ==
    IF activeBoard # currentPhase /\ ~isManualBoardSwitch
    THEN [current |-> "pending", kind |-> "phase", phase |-> currentPhase]
    ELSE ref

\* handleMoveComplete: unless the client was answering a check, a timer is
\* set that shows the other board after 0.5 s
swapToOther(ref) ==
    IF is_responding_to_check_on_board = null
    THEN [current |-> "pending", kind |-> "toggle", phase |-> "main"]
    ELSE ref

\* the arrival of a snapshot is recorded with whether its phase is the board shown
arrival(data) ==
    IF data.active_board_phase # activeBoard THEN "update_differs" ELSE "other"

\* game_update arrives: handleGameState and handleMoveComplete run, in the
\* order in which the two effects last subscribed
GameUpdate(data, first) ==
    /\ lastEvent # "none"
    /\ socket
    /\ follows(data)
    /\ \E ref \in {IF first = "handleGameState"
                   THEN swapToOther(swapToPhase(boardSwapTimeoutRef, data.active_board_phase))
                   ELSE swapToPhase(swapToOther(boardSwapTimeoutRef), data.active_board_phase)} :
       \E v \in {commit(view,
                        [view EXCEPT
                            !.boardSwapTimeoutRef = ref,
                            !.serverActiveBoardPhase = data.active_board_phase,
                            !.respondingToCheckBoard = data.is_responding_to_check_on_board],
                        socket)} :
           setView(v)
    /\ setSnapshot(data)
    /\ selectedPieceSquare' = FALSE
    /\ castlingCandidate' = FALSE
    /\ lastEvent' = arrival(data)
    /\ UNCHANGED <<socket, playerColor, pendingPromotion, emitted>>

\* game_state arrives, with the snapshot held or one that follows it:
\* handleGameState runs
GameState(data) ==
    /\ lastEvent # "none"
    /\ socket
    /\ data = held \/ follows(data)
    /\ \E v \in {commit(view,
                        [view EXCEPT
                            !.boardSwapTimeoutRef =
                                swapToPhase(boardSwapTimeoutRef, data.active_board_phase),
                            !.serverActiveBoardPhase = data.active_board_phase,
                            !.respondingToCheckBoard = data.is_responding_to_check_on_board],
                        socket)} :
           setView(v)
    /\ setSnapshot(data)
    /\ selectedPieceSquare' = FALSE
    /\ castlingCandidate' = FALSE
    /\ lastEvent' = arrival(data)
    /\ UNCHANGED <<socket, playerColor, pendingPromotion, emitted>>

\* game_reset arrives: the board of the phase is shown at once and the swap
\* timer is cleared and forgotten
GameReset ==
    /\ lastEvent # "none"
    /\ socket
    /\ \E v \in {commit(view,
                        [view EXCEPT
                            !.activeBoard = resetSnapshot.active_board_phase,
                            !.boardSwapTimeoutRef = noTimeout,
                            !.serverActiveBoardPhase = resetSnapshot.active_board_phase,
                            !.respondingToCheckBoard = null],
                        socket)} :
           setView(v)
    /\ setSnapshot(resetSnapshot)
    /\ selectedPieceSquare' = FALSE
    /\ lastEvent' = "other"
    /\ UNCHANGED <<socket, playerColor, castlingCandidate, pendingPromotion, emitted>>

\* the space bar or a double tap: the player switches boards by hand
ManualSwitch ==
    /\ lastEvent # "none"
    /\ pendingPromotion = null
    /\ \E v \in {commit(view,
                        [view EXCEPT
                            !.activeBoard = otherBoardName(activeBoard),
                            !.isManualBoardSwitch = TRUE,
                            !.boardSwapTimeoutRef = noTimeout,
                            !.manualSwitchTimeoutRef = "pending"],
                        socket)} :
           setView(v)
    /\ selectedPieceSquare' = FALSE
    /\ lastEvent' = "other"
    /\ UNCHANGED <<socket, playerColor, castlingCandidate, pendingPromotion, emitted>>
    /\ UNCHANGED <<gameVars, lobbyVars, roomVars>>

\* the swap timer fires: the timer of handleGameState shows the board of its
\* phase and forgets itself, that of handleMoveComplete shows the other board
\* and stays in the ref
SwapTimeout ==
    /\ boardSwapTimeoutRef.current = "pending"
    /\ \E v \in {commit(view,
                        IF boardSwapTimeoutRef.kind = "phase"
                        THEN [view EXCEPT !.activeBoard = boardSwapTimeoutRef.phase,
                                          !.boardSwapTimeoutRef = noTimeout]
                        ELSE [view EXCEPT !.activeBoard = otherBoardName(activeBoard),
                                          !.boardSwapTimeoutRef = staleTimeout],
                        socket)} :
           setView(v)
    /\ selectedPieceSquare' = FALSE
    /\ UNCHANGED <<socket, playerColor, castlingCandidate, pendingPromotion, emitted,
                   lastEvent>>
    /\ UNCHANGED <<gameVars, lobbyVars, roomVars>>

\* the manual-switch timer fires
ManualTimeout ==
    /\ manualSwitchTimeoutRef = "pending"
    /\ \E v \in {commit(view,
                        [view EXCEPT !.isManualBoardSwitch = FALSE,
                                     !.manualSwitchTimeoutRef = "null"],
                        socket)} :
           /\ setView(v)
           /\ selectedPieceSquare' = (selectedPieceSquare /\ ~v.synced)
    /\ UNCHANGED <<socket, playerColor, castlingCandidate, pendingPromotion, emitted,
                   lastEvent>>
    /\ UNCHANGED <<gameVars, lobbyVars, roomVars>>

\* a faulty click test, which the properties below must tell from
\* clickBlocked: it leaves out the early outs on the game's state
clickBlockedFaulty(boardClicked) ==
    \/ pendingPromotion # null
    \/ ~socket
    \/ boardClicked # activeBoard

\* handleSquareClick returns at once: the promotion modal is open, there is
\* no socket, an early out on the game's state holds, or the board clicked
\* is not the board shown
clickBlocked(boardClicked) ==
    \/ pendingPromotion # null
    \/ ~socket
    \/ ClickEarlyOut(boardClicked, playerColor)
    \/ boardClicked # activeBoard

\* the first tap selects a piece of the side to move; candidate tells whether
\* it is a king with a castling option
FirstTap(boardClicked, candidate) ==
    /\ lastEvent # "none"
    /\ ~clickBlocked(boardClicked)
    /\ ~selectedPieceSquare
    /\ selectedPieceSquare' = TRUE
    /\ castlingCandidate' = candidate
    /\ UNCHANGED <<socket, playerColor, activeBoard, isManualBoardSwitch,
                   boardSwapTimeoutRef, manualSwitchTimeoutRef, pendingPromotion,
                   emitted, lastEvent>>
    /\ UNCHANGED <<gameVars, lobbyVars, roomVars>>

\* what the second tap can be: on a castling square of the selected king, a
\* pawn's step to its last rank, an en passant capture, another of the
\* possible moves, or a square that is none of them
tapKinds ==
    IF castlingCandidate THEN {"castle", "move", "miss"}
    ELSE {"promotion", "en_passant", "move", "miss"}

\* the second tap: the move is emitted with boardType serverActiveBoardPhase,
\* or the promotion modal opens for the board clicked
SecondTap(boardClicked, kind) ==
    /\ lastEvent # "none"
    /\ ~clickBlocked(boardClicked)
    /\ selectedPieceSquare
    /\ kind \in tapKinds
    /\ selectedPieceSquare' = FALSE
    /\ castlingCandidate' = (castlingCandidate /\ kind \in {"promotion", "en_passant"})
    /\ pendingPromotion' = IF kind = "promotion" THEN boardClicked ELSE pendingPromotion
    /\ emitted' = IF kind \in {"castle", "en_passant", "move"}
                  THEN [path |-> kind, boardType |-> active_board_phase]
                  ELSE emitted
    /\ \E v \in {commit(view, [view EXCEPT !.showPromotionModal = (kind = "promotion")],
                        socket)} :
           setView(v)
    /\ UNCHANGED <<socket, playerColor, lastEvent>>
    /\ UNCHANGED <<gameVars, lobbyVars, roomVars>>

\* handlePromotionChoice: the pending move is emitted for the board it was
\* made on
PromotionChoice ==
    /\ pendingPromotion # null
    /\ socket
    /\ emitted' = [path |-> "promotion", boardType |-> pendingPromotion]
    /\ pendingPromotion' = null
    /\ \E v \in {commit(view, [view EXCEPT !.showPromotionModal = FALSE], socket)} :
           setView(v)
    /\ UNCHANGED <<socket, playerColor, selectedPieceSquare, castlingCandidate, lastEvent>>
    /\ UNCHANGED <<gameVars, lobbyVars, roomVars>>

\* the Cancel button of the promotion modal
PromotionCancel ==
    /\ pendingPromotion # null
    /\ pendingPromotion' = null
    /\ \E v \in {commit(view, [view EXCEPT !.showPromotionModal = FALSE], socket)} :
           setView(v)
    /\ UNCHANGED <<socket, playerColor, selectedPieceSquare, castlingCandidate, emitted,
                   lastEvent>>
    /\ UNCHANGED <<gameVars, lobbyVars, roomVars>>

\* a castling action button, shown while there is a castling candidate
CastleButton ==
    /\ castlingCandidate
    /\ socket
    /\ emitted' = [path |-> "castle_button", boardType |-> active_board_phase]
    /\ castlingCandidate' = FALSE
    /\ selectedPieceSquare' = FALSE
    /\ UNCHANGED <<socket, playerColor, activeBoard, isManualBoardSwitch,
                   boardSwapTimeoutRef, manualSwitchTimeoutRef, pendingPromotion,
                   lastEvent>>
    /\ UNCHANGED <<gameVars, lobbyVars, roomVars>>

\* the button "TEST: Force White Kingside Castle (Main Board)" of the debug menu
DebugForceCastle ==
    /\ lastEvent # "none"
    /\ socket
    /\ emitted' = [path |-> "debug", boardType |-> "main"]
    /\ UNCHANGED <<socket, playerColor, activeBoard, isManualBoardSwitch,
                   boardSwapTimeoutRef, manualSwitchTimeoutRef, selectedPieceSquare,
                   castlingCandidate, pendingPromotion, lastEvent>>
    /\ UNCHANGED <<gameVars, lobbyVars, roomVars>>

SnapshotHandlers == {"handleGameState", "handleMoveComplete"}

ClientNext ==
    \/ \E color \in PlayerColors, hasSocket \in BOOLEAN : Mount(color, hasSocket)
    \/ \E data \in Snapshots, first \in SnapshotHandlers : GameUpdate(data, first)
    \/ \E data \in Snapshots : GameState(data)
    \/ GameReset
    \/ ManualSwitch
    \/ SwapTimeout
    \/ ManualTimeout
    \/ \E boardClicked \in Boards, candidate \in BOOLEAN : FirstTap(boardClicked, candidate)
    \/ \E boardClicked \in Boards, kind \in {"castle", "promotion", "en_passant", "move", "miss"} :
          SecondTap(boardClicked, kind)
    \/ PromotionChoice
    \/ PromotionCancel
    \/ CastleButton
    \/ DebugForceCastle

\* the timers of a browser fire
ClientSpec ==
    Init /\ [][ClientNext]_vars /\ WF_vars(SwapTimeout) /\ WF_vars(ManualTimeout)

\* a step of a timer
TimerStep == SwapTimeout \/ ManualTimeout

(* C35: after a game_state or game_update whose phase is not the board     *)
(* shown, once no manual switch is made and no further event arrives (only *)
(* timers run), the board shown eventually is the board of the server's    *)
(* phase and stays so.                                                     *)
C35_EventuallyInSync ==
    <>[][TimerStep]_vars
        => <>[](lastEvent = "update_differs" => activeBoard = active_board_phase)

\* the board shown is not the board of the phase and no timer is left to
\* change it: the ref holds the id of the cleared swap timer, which keeps the
\* sync effect from acting
C35_OutOfSync ==
    /\ lastEvent = "update_differs"
    /\ activeBoard # active_board_phase
    /\ ~isManualBoardSwitch
    /\ boardSwapTimeoutRef.current = "stale"
    /\ manualSwitchTimeoutRef # "pending"

\* the state in which a move on boardType may be made: the game is not
\* finished, the board is not decided, it is the board of the server's phase
\* and, in a multiplayer game, the turn is the player's
Gated(boardType) ==
    /\ ~game_over
    /\ outcomeOf(boardType) = "active"
    /\ boardType = active_board_phase
    /\ (playerColor # null => turn = playerColor)

\* a tap on a square emits a move
TapEmits ==
    \E boardClicked \in Boards, kind \in {"castle", "en_passant", "move"} :
        SecondTap(boardClicked, kind)

(* C34: every move event the client emits, from a tap on a square, the     *)
(* promotion dialog, a castle button or the debug force-castle button, is  *)
(* emitted in a client state where the game is not finished, the board of  *)
(* the event is not decided and is the board of the server's phase, and in *)
(* a multiplayer game the turn is the player's.                            *)
C34_EveryEmitGated ==
    [][(TapEmits \/ PromotionChoice \/ CastleButton \/ DebugForceCastle)
          => Gated(emitted'.boardType)]_vars

(* C34, amended: every move event emitted from a tap on a square (a        *)
(* possible move, an en passant capture, a castling square) is emitted in  *)
(* such a state, and every snapshot handled clears the selection, so that  *)
(* no tap completes a move begun before it.                                *)
C34_TapsGated ==
    /\ [][TapEmits => Gated(emitted'.boardType)]_vars
    /\ [][held' # held => ~selectedPieceSquare']_vars

\* a move was emitted from a tap on the Secondary board by the player of a
\* multiplayer game
C34_Witness ==
    /\ emitted = [path |-> "move", boardType |-> "secondary"]
    /\ playerColor = "Black"
    /\ activeBoard = "secondary"

\* the promotion dialog was opened, and then a snapshot came that ended the
\* game or moved the phase; the dialog is still open
C34_DialogOutlivesUpdate ==
    /\ pendingPromotion # null
    /\ ~Gated(pendingPromotion)

(***************************************************************************)
(* The lobby registry, backend/lobbyManager.ts.                            *)
(***************************************************************************)
\* a room id no lobby is ever created under
unknownRoomId == "r0"

NoDuplicates(array) ==
    \A i, j \in 1 .. Len(array) : array[i] = array[j] => i = j

(***************************************************************************)
(* C36: every lobby of the registry has at least one player and no         *)
(* username twice in its players; addPlayerToLobby and                     *)
(* removePlayerFromLobby on a room id that is not in the registry return   *)
(* false and change nothing.                                               *)
(***************************************************************************)
C36_RegistryInvariant ==
    /\ \A room \in DOMAIN lobbies :
           /\ Len(lobbies[room].players) >= 1
           /\ NoDuplicates(lobbies[room].players)
    /\ \A room \in (RoomIds \cup {unknownRoomId}) \ DOMAIN lobbies :
           \A player \in Usernames :
               /\ ~addPlayerToLobbyReturns(lobbies, room, player)
               /\ addPlayerToLobby(lobbies, room, player) = lobbies
               /\ ~removePlayerFromLobbyReturns(lobbies, room, player)
               /\ removePlayerFromLobby(lobbies, room, player) = lobbies

\* a lobby that players have joined and the host has left
C36_Witness ==
    \E room \in DOMAIN lobbies :
        /\ Len(lobbies[room].players) = 2
        /\ ~includes(lobbies[room].players, lobbies[room].host)

\* this step accepts a capture on Main whose mirror takes a piece off Secondary
MirrorRemoves ==
    /\ MoveAccepted
    /\ moved.boardType = "main"
    /\ capturedNow # null
    /\ secondaryBoard' # secondaryBoard

(***************************************************************************)
(* C37: after an accepted capture on Main whose mirror removes a piece     *)
(* from Secondary, the mover's own king on Secondary is not attacked by    *)
(* the opponent.                                                           *)
(***************************************************************************)
C37_MirrorKeepsMoverSafe ==
    [][MirrorRemoves => ~KingAttacked(secondaryBoard', moved.color)]_vars

\* C37 for the mirror's own doing: a king of the mover that was not attacked
\* on Secondary before the capture is not attacked there after it
C37_MirrorExposesNoKing ==
    [][(MirrorRemoves /\ ~KingAttacked(secondaryBoard, moved.color)) =>
          ~KingAttacked(secondaryBoard', moved.color)]_vars

\* the side that has just moved on Main is attacked on Secondary, where the
\* opponent is to move
C37_MoverExposed ==
    /\ moves # <<>>
    /\ ~game_over
    /\ lastMove.boardType = "main"
    /\ turn = Opponent(lastMove.color)
    /\ active_board_phase = "secondary"
    /\ KingAttacked(secondaryBoard, lastMove.color)

\* the Active boards on which the king of the side to move is attacked
CheckedNow == {b \in Boards : outcomeOf(b) = "active" /\ KingAttacked(boardOf(b), turn)}

C38_CheckedOnBoth ==
    /\ moves # <<>>
    /\ ~game_over
    /\ is_responding_to_check_on_board # null
    /\ CheckedNow = Boards

\* the submits of the side to move on a board that pass steps 1-5, as
\* <<board, from, to>>
AcceptedOn(boardType) ==
    UNION {UNION {{<<boardType, from, to>> :
                      to \in {t \in legal :
                                \E promotion \in PromotionChoices \cup {null} :
                                    Accepted(turn, boardType, from, t, promotion, legal)}} :
                  legal \in {legal_moves(boardOf(boardType), from, turn,
                                         castling_rights[boardType],
                                         en_passant_target[boardType])}} :
           from \in {sq \in Squares :
                        getPieceInfo(boardOf(boardType)[sq[1]][sq[2]]).color = turn}}

AcceptedSubmits ==
    UNION {AcceptedOn(boardType) : boardType \in {b \in Boards : GateReason(turn, b) = null}}

pusherOf(ep) == IF ep[1] = 5 THEN "White" ELSE "Black"
pushedSquare(ep) == <<ep[1] + pawnDirection(pusherOf(ep)), ep[2]>>

\* the squares beside the pushed pawn that hold a pawn of the other side
Capturers(board, ep) ==
    {sq \in Squares :
        /\ sq[1] = pushedSquare(ep)[1]
        /\ Dist(sq[2] - ep[2]) = 1
        /\ getPieceInfo(board[sq[1]][sq[2]]).type = "P"
        /\ getPieceInfo(board[sq[1]][sq[2]]).color = Opponent(pusherOf(ep))}

\* the target of the board is set by a two-step push that ended beside a pawn
\* of the other side
PendingPush(b) ==
    /\ en_passant_target[b] # noSquare
    /\ getPieceInfo(boardOf(b)[pushedSquare(en_passant_target[b])[1]]
                              [pushedSquare(en_passant_target[b])[2]]).color
          = pusherOf(en_passant_target[b])
    /\ Capturers(boardOf(b), en_passant_target[b]) # {}

C40_TargetCleared ==
    \E i \in 1 .. Len(moves) :
        /\ getPieceInfo(moves[i].piece).type = "P"
        /\ Dist(moves[i].to[1] - moves[i].from[1]) = 2
        /\ \A j \in (i + 1) .. Len(moves) :
               moves[j].boardType = moves[i].boardType => moves[j].color = moves[i].color
        /\ \E j \in (i + 1) .. Len(moves) : moves[j].boardType = moves[i].boardType
        /\ boardOf(moves[i].boardType)[moves[i].to[1]][moves[i].to[2]] = moves[i].piece
        /\ \E sq \in Squares :
               /\ sq[1] = moves[i].to[1]
               /\ Dist(sq[2] - moves[i].to[2]) = 1
               /\ getPieceInfo(boardOf(moves[i].boardType)[sq[1]][sq[2]]).type = "P"
               /\ getPieceInfo(boardOf(moves[i].boardType)[sq[1]][sq[2]]).color
                     = Opponent(moves[i].color)
        /\ en_passant_target[moves[i].boardType] = noSquare

\* in the checkmate preset, after h2-h4 beside the pawn g4, no en passant
\* capture is ever accepted on Main: Black plays Secondary, where it has no
\* check to give, and White's next move on Main ends the target
C40_PushNeverCaptured ==
    [][(/\ scenario = "checkmate"
        /\ moves # <<>>
        /\ moves[1].piece = "P8" /\ moves[1].to = <<4, 7>>
        /\ MoveAccepted
        /\ moved.boardType = "main") =>
          ~IsEnPassant(mainBoard, moved.from, moved.to)]_vars
====
